---- MODULE Spec2Model ----
(***************************************************************************)
(* libmangal: the concurrent page fetcher, the chapter download pipeline   *)
(* (staging filesystem, then merge) and the cached metadata provider.      *)
(*                                                                         *)
(* Three components, each with its own specification over the same         *)
(* variables; a specification leaves the other components' variables at    *)
(* their initial values.                                                   *)
(*   SpecBatch  Client.DownloadPagesInBatch, one goroutine per page        *)
(*   SpecDL     Client.DownloadChapter, calls made one after another       *)
(*   SpecCache  metadata.ProviderWithCache                                 *)
(***************************************************************************)
EXTENDS Integers, Sequences, FiniteSets, TLC

\* ------------------------------------------------------------------------
\* Bounds
\* ------------------------------------------------------------------------

\* longest page sequence handed to DownloadPagesInBatch
MaxPages == 3

\* the absent value of a string-typed slot (a nil error, a nil image)
Nil == "nil"

Max(a, b) == IF a > b THEN a ELSE b

\* ------------------------------------------------------------------------
\* Pages (mangadata.Page, mangadata.PageWithImage)
\* ------------------------------------------------------------------------

\* A page is its url, its extension and, when the content source already
\* embedded the bytes (it implements PageWithImage), its image.
PagePool ==
  { [url |-> 1, ext |-> ".jpg", img |-> Nil],
    [url |-> 2, ext |-> ".png", img |-> Nil],
    [url |-> 3, ext |-> ".jpg", img |-> "embedded3"] }

\* the value of a slot of downloadedPages that no goroutine has written
NilPage == [url |-> 0, ext |-> Nil, img |-> Nil]

\* what Provider.GetPageImage answers for a page when it succeeds
ProviderImage(page) == <<"image1", "image2", "image3">>[page.url]

\* the error Provider.GetPageImage answers for a page when it fails
ProviderError(page) == <<"fetch1 failed", "fetch2 failed", "fetch3 failed">>[page.url]

\* the image a page must end up with
ImageOf(page) == IF page.img # Nil THEN page.img ELSE ProviderImage(page)

\* page.(mangadata.PageWithImage)
IsPageWithImage(page) == page.img # Nil

SeqsUpTo(S, n) == UNION { [1..k -> S] : k \in 0..n }

\* ------------------------------------------------------------------------
\* Archive entries: fmt.Sprintf("%04d%s", i+1, page.Extension())
\* ------------------------------------------------------------------------

RECURSIVE Digits(_)
Digits(n) == IF n < 10 THEN <<n>> ELSE Digits(n \div 10) \o <<n % 10>>

RECURSIVE ZeroPad(_, _)
ZeroPad(w, ds) == IF Len(ds) >= w THEN ds ELSE ZeroPad(w, <<0>> \o ds)

\* %04d
Sprintf04d(n) == ZeroPad(4, Digits(n))

\* the number a digit string reads as
RECURSIVE DigitsValue(_)
DigitsValue(ds) ==
  IF ds = <<>> THEN 0 ELSE 10 * DigitsValue(SubSeq(ds, 1, Len(ds) - 1)) + ds[Len(ds)]

\* entry of the page at Go index i
PageEntryName(i, page) == [num |-> Sprintf04d(i + 1), ext |-> page.ext]

\* one archive entry per page, in slice order; Go index i is k - 1
saveZIP(pages) ==
  [k \in 1..Len(pages) |->
     [name |-> PageEntryName(k - 1, pages[k]), data |-> pages[k].img]]

\* ------------------------------------------------------------------------
\* metadata.ProviderWithCache
\* ------------------------------------------------------------------------

\* operations made on the wrapper in one behaviour
MaxOps == 2

\* largest tries argument of FindClosest
MaxTries == 3

\* strings are sequences of one-character strings
DigitChars == <<"0", "1", "2", "3", "4", "5", "6", "7", "8", "9">>

IsDigitChar(ch) == \E d \in 1..10 : DigitChars[d] = ch

DigitOfChar(ch) == (CHOOSE d \in 1..10 : DigitChars[d] = ch) - 1

RECURSIVE DigitCharsValue(_)
DigitCharsValue(str) ==
  IF str = <<>> THEN 0
  ELSE 10 * DigitCharsValue(SubSeq(str, 1, Len(str) - 1)) + DigitOfChar(str[Len(str)])

\* strconv.Atoi: an optional sign, then one or more decimal digits
Atoi(str) ==
  LET signed == Len(str) > 0 /\ str[1] \in {"+", "-"}
      body   == IF signed THEN Tail(str) ELSE str
      ok     == Len(body) > 0 /\ \A k \in 1..Len(body) : IsDigitChar(body[k])
      mag    == IF ok THEN DigitCharsValue(body) ELSE 0
  IN  [ok |-> ok, val |-> IF signed /\ str[1] = "-" THEN 0 - mag ELSE mag]

RECURSIVE NatToChars(_)
NatToChars(n) ==
  IF n < 10 THEN <<DigitChars[n + 1]>> ELSE NatToChars(n \div 10) \o <<DigitChars[(n % 10) + 1]>>

\* strconv.Itoa
Itoa(n) == IF n < 0 THEN <<"-">> \o NatToChars(0 - n) ELSE NatToChars(n)

\* strings.TrimSpace
RECURSIVE TrimLeft(_)
TrimLeft(str) == IF str # <<>> /\ Head(str) = " " THEN TrimLeft(Tail(str)) ELSE str

RECURSIVE TrimRight(_)
TrimRight(str) ==
  IF str # <<>> /\ str[Len(str)] = " " THEN TrimRight(SubSeq(str, 1, Len(str) - 1)) ELSE str

TrimSpace(str) == TrimRight(TrimLeft(str))

\* a Metadata as the wrapper sees it: the raw ID and the rest of the record
NoMeta == [raw |-> <<>>, rev |-> 0]

MetaPool ==
  { [raw |-> <<"1">>, rev |-> 1],
    [raw |-> <<"1">>, rev |-> 2],
    [raw |-> <<"0", "2">>, rev |-> 1],
    [raw |-> <<"x">>, rev |-> 1] }

\* the titles and queries handed to the wrapper
TitlePool ==
  { <<"s", "h", "o", "r", "t">>,
    <<"a", " ", "b", "c">>,
    <<"s">> }

QueryPool == { <<"s", "h", "o", "r", "t">>, <<"s", "h">>, <<"a", " ", "b", "c">> }

IDPool == {1, 2}

\* the (title, tries, step) arguments FindClosest is called with
FindClosestArgs ==
  { <<<<"s", "h", "o", "r", "t">>, MaxTries, 3>>,
    <<<<"s", "h", "o", "r", "t">>, 1, 3>>,
    <<<<"a", " ", "b", "c">>, MaxTries, 1>>,
    <<<<"s">>, MaxTries, 1>>,
    <<<<"s", "h", "o", "r", "t">>, 0, 3>> }

\* the ranked lists the wrapped provider answers a Search with: none, one
\* item, two items whose first shares its id with the single item, and a
\* list whose second item carries an id that is no integer
ResultLists ==
  { <<>>,
    <<[raw |-> <<"1">>, rev |-> 1]>>,
    <<[raw |-> <<"1">>, rev |-> 2], [raw |-> <<"0", "2">>, rev |-> 1]>>,
    <<[raw |-> <<"0", "2">>, rev |-> 1], [raw |-> <<"x">>, rev |-> 1]>> }

\* what the wrapped provider may answer to Search: an error, or a ranked list
SearchAnswers ==
  { [err |-> TRUE, metas |-> <<>>] } \cup
  { [err |-> FALSE, metas |-> ms] : ms \in ResultLists }

\* what the wrapped provider may answer to SearchByID(id)
ByIDAnswers(id) ==
  { [err |-> TRUE, ok |-> FALSE, meta |-> NoMeta],
    [err |-> FALSE, ok |-> FALSE, meta |-> NoMeta] } \cup
  { [err |-> FALSE, ok |-> TRUE, meta |-> m] :
      m \in { x \in MetaPool : Atoi(x.raw).ok /\ Atoi(x.raw).val = id } }

\* an error value: its Go type and where it came from
NoErr == [type |-> Nil, origin |-> Nil]

\* metadata.Error(err.Error())
WrapError(origin) == [type |-> "metadata.Error", origin |-> origin]

\* the error of the wrapped provider, returned as it is
ProviderErr == [type |-> "provider", origin |-> "provider"]

\* gokv.Store.Get on a bucket
Lookup(mode, bucket, key) ==
  IF mode = "kept" /\ key \in DOMAIN bucket
    THEN [found |-> TRUE, val |-> bucket[key]]
    ELSE [found |-> FALSE, val |-> <<>>]

\* a Set that writes the key only when it is not there yet
Put_onlyNew(mode, bucket, key, val) ==
  IF mode = "kept" /\ key \notin DOMAIN bucket
    THEN [k \in DOMAIN bucket \cup {key} |-> IF k = key THEN val ELSE bucket[k]]
    ELSE bucket

\* gokv.Store.Set on a bucket
Put(mode, bucket, key, val) ==
  IF mode = "kept"
    THEN [k \in DOMAIN bucket \cup {key} |-> IF k = key THEN val ELSE bucket[k]]
    ELSE bucket

\* The running state of one wrapper step: the three buckets, the cache
\* operations made so far (the failAt-th one fails, 0 for none), and the
\* calls made to the wrapped provider.
Ctx(mode, q2i, t2i, i2m, failAt) ==
  [mode |-> mode, q2i |-> q2i, t2i |-> t2i, i2m |-> i2m,
   n |-> 0, failAt |-> failAt, pcalls |-> 0, idcalls |-> 0]

\* one more cache operation
Tick(c) == [c EXCEPT !.n = @ + 1]

\* the cache operation just counted is the one that fails
Fails(c) == c.n = c.failAt

\* store.setMeta(id, meta)
setMeta(c, id, meta) == [c EXCEPT !.i2m = Put(c.mode, c.i2m, Itoa(id), meta)]

\* store.setQueryIDs(query, ids)
setQueryIDs(c, query, ids) == [c EXCEPT !.q2i = Put(c.mode, c.q2i, query, ids)]

\* store.setTitleID(title, id)
setTitleID(c, title, id) == [c EXCEPT !.t2i = Put(c.mode, c.t2i, title, id)]

ByIDResult(c, meta, found, err) == [c |-> c, meta |-> meta, found |-> found, err |-> err]

\* a SearchByID that stores whatever the provider answered
SearchByIDOp_cacheMiss(c0, id, answer) ==
  LET c1 == Tick(c0)
      hit == Lookup(c1.mode, c1.i2m, Itoa(id))
  IN  IF Fails(c1) THEN ByIDResult(c1, NoMeta, FALSE, WrapError("cache"))
      ELSE IF hit.found THEN ByIDResult(c1, hit.val, TRUE, NoErr)
      ELSE
        LET c2 == [c1 EXCEPT !.idcalls = @ + 1]
        IN  IF answer.err THEN ByIDResult(c2, NoMeta, FALSE, WrapError("provider"))
            ELSE
              LET c3 == Tick(c2)
              IN  IF Fails(c3) THEN ByIDResult(c3, NoMeta, FALSE, WrapError("cache"))
                  ELSE ByIDResult(setMeta(c3, id, answer.meta), answer.meta, answer.ok, NoErr)

\* ProviderWithCache.SearchByID
SearchByIDOp(c0, id, answer) ==
  LET c1 == Tick(c0)
      hit == Lookup(c1.mode, c1.i2m, Itoa(id))
  IN  IF Fails(c1) THEN ByIDResult(c1, NoMeta, FALSE, WrapError("cache"))
      ELSE IF hit.found THEN ByIDResult(c1, hit.val, TRUE, NoErr)
      ELSE
        LET c2 == [c1 EXCEPT !.idcalls = @ + 1]
        IN  IF answer.err THEN ByIDResult(c2, NoMeta, FALSE, WrapError("provider"))
            ELSE IF ~answer.ok THEN ByIDResult(c2, NoMeta, FALSE, NoErr)
            ELSE
              LET c3 == Tick(c2)
              IN  IF Fails(c3) THEN ByIDResult(c3, NoMeta, FALSE, WrapError("cache"))
                  ELSE ByIDResult(setMeta(c3, id, answer.meta), answer.meta, TRUE, NoErr)

SearchResult(c, metas, err) == [c |-> c, metas |-> metas, err |-> err]

\* Search, cache hit: each cached id is resolved through SearchByID;
\* byID gives the provider's answer for an id should it be asked.
RECURSIVE ResolveIDs(_, _, _, _)
ResolveIDs(c, ids, byID, metas) ==
  IF ids = <<>> THEN SearchResult(c, metas, NoErr)
  ELSE
    LET r == SearchByIDOp(c, Head(ids), byID[Head(ids)])
    IN  IF r.err # NoErr THEN SearchResult(r.c, <<>>, r.err)
        ELSE ResolveIDs(r.c, Tail(ids), byID,
                        IF r.found THEN Append(metas, r.meta) ELSE metas)

\* a cache miss that stores the ids under the query first and the items
\* after it
RECURSIVE StoreMetas_idsFirst(_, _, _, _, _)
StoreMetas_idsFirst(c, query, metas, k, ids) ==
  IF k > Len(metas) THEN SearchResult(c, metas, NoErr)
  ELSE
    LET id == Atoi(metas[k].raw)
        c0 == IF k = 1
                THEN setQueryIDs(c, query, [j \in 1..Len(metas) |-> Atoi(metas[j].raw).val])
                ELSE c
        c1 == Tick(c0)
    IN  IF ~id.ok THEN SearchResult(c0, <<>>, WrapError("atoi"))
        ELSE IF Fails(c1) THEN SearchResult(c1, <<>>, WrapError("cache"))
        ELSE StoreMetas_idsFirst(setMeta(c1, id.val, metas[k]), query, metas, k + 1,
                                 Append(ids, id.val))

\* a cache miss that stores nothing under the query when the provider
\* returned no items
RECURSIVE StoreMetas_skipEmpty(_, _, _, _, _)
StoreMetas_skipEmpty(c, query, metas, k, ids) ==
  IF k > Len(metas)
    THEN LET c1 == Tick(c)
         IN  IF ids = <<>> THEN SearchResult(c, metas, NoErr)
             ELSE IF Fails(c1) THEN SearchResult(c1, <<>>, WrapError("cache"))
             ELSE SearchResult(setQueryIDs(c1, query, ids), metas, NoErr)
    ELSE
      LET id == Atoi(metas[k].raw)
      IN  IF ~id.ok THEN SearchResult(c, <<>>, WrapError("atoi"))
          ELSE
            LET c1 == Tick(c)
            IN  IF Fails(c1) THEN SearchResult(c1, <<>>, WrapError("cache"))
                ELSE StoreMetas_skipEmpty(setMeta(c1, id.val, metas[k]), query, metas,
                                          k + 1, Append(ids, id.val))

\* Search, cache miss: the id of each returned item is parsed and the item
\* stored under it, then the ids are stored under the query.
RECURSIVE StoreMetas(_, _, _, _, _)
StoreMetas(c, query, metas, k, ids) ==
  IF k > Len(metas)
    THEN LET c1 == Tick(c)
         IN  IF Fails(c1) THEN SearchResult(c1, <<>>, WrapError("cache"))
             ELSE SearchResult(setQueryIDs(c1, query, ids), metas, NoErr)
    ELSE
      LET id == Atoi(metas[k].raw)
      IN  IF ~id.ok THEN SearchResult(c, <<>>, WrapError("atoi"))
          ELSE
            LET c1 == Tick(c)
            IN  IF Fails(c1) THEN SearchResult(c1, <<>>, WrapError("cache"))
                ELSE StoreMetas(setMeta(c1, id.val, metas[k]), query, metas, k + 1,
                                Append(ids, id.val))

\* a Search that asks the provider whatever the cache holds
SearchOp_noCache(c0, query, answer, byID) ==
  LET c1 == Tick(c0)
      c2 == [c1 EXCEPT !.pcalls = @ + 1]
  IN  IF Fails(c1) THEN SearchResult(c1, <<>>, WrapError("cache"))
      ELSE IF answer.err THEN SearchResult(c2, <<>>, ProviderErr)
      ELSE StoreMetas(c2, query, answer.metas, 1, <<>>)

\* ProviderWithCache.Search
SearchOp(c0, query, answer, byID) ==
  LET c1  == Tick(c0)
      hit == Lookup(c1.mode, c1.q2i, query)
  IN  IF Fails(c1) THEN SearchResult(c1, <<>>, WrapError("cache"))
      ELSE IF hit.found THEN ResolveIDs(c1, hit.val, byID, <<>>)
      ELSE
        LET c2 == [c1 EXCEPT !.pcalls = @ + 1]
        IN  IF answer.err THEN SearchResult(c2, <<>>, ProviderErr)
            ELSE StoreMetas(c2, query, answer.metas, 1, <<>>)

\* the ids of a list of Metadata
RECURSIVE IDsOf(_)
IDsOf(metas) ==
  IF metas = <<>> THEN {} ELSE {Atoi(Head(metas).raw).val} \cup IDsOf(Tail(metas))

\* findClosest: the title to search next after an attempt without results;
\* stop tells that the loop breaks instead
Shorten(title, step) ==
  LET t      == TrimSpace(title)
      newLen == IF Len(t) > step THEN Len(t) - step ELSE Len(t) - 1
  IN  IF Len(t) <= step /\ Len(t) <= 1 THEN [stop |-> TRUE, panic |-> FALSE, title |-> t]
      ELSE IF newLen < 0 \/ newLen > Len(t)
        THEN [stop |-> TRUE, panic |-> TRUE, title |-> t]
      ELSE [stop |-> FALSE, panic |-> FALSE, title |-> SubSeq(t, 1, newLen)]

VARIABLES
  cacheMode,   \* "kept": a bucket keeps its entries between opens
  q2i,         \* bucket query-to-ids
  t2i,         \* bucket title-to-id
  i2m,         \* bucket id-to-manga, keyed by strconv.Itoa(id)
  opCount,     \* wrapper operations started
  last,        \* the operation that returned last
  prev,        \* the operation that returned before it
  fcPc,        \* FindClosest: "idle" or "loop"
  fc,          \* FindClosest in progress: its arguments and loop variables
  provEmpty    \* every answer of the wrapped provider so far was empty

cacheVars == <<cacheMode, q2i, t2i, i2m, opCount, last, prev, fcPc, fc, provEmpty>>

VARIABLES
  bPc,              \* DownloadPagesInBatch: "idle", "running", "returned", "saved"
  bIn,              \* its pages argument
  gPc,              \* per goroutine: "none", "ready", "fetching", "done"
  downloadedPages,  \* the slice the goroutines fill
  gErr,             \* errgroup: the first error returned by a goroutine
  bCtx,             \* errgroup context: TRUE once cancelled
  bCalls,           \* per page index, the GetPageImage calls made
  bFailed,          \* the goroutines whose fetch returned an error
  bOrder,           \* the goroutine indices in the order their pages were stored
  bRet,             \* what DownloadPagesInBatch returned: [pages, err]
  bArchive          \* the archive written from the returned pages

batchVars == <<bPc, bIn, gPc, downloadedPages, gErr, bCtx, bCalls, bFailed, bOrder, bRet, bArchive>>

VARIABLES
  fs,          \* the caller-visible filesystem, c.options.FS
  stage,       \* the staging filesystem of the call in progress
  tmpFS,       \* which filesystem tmpClient.options.FS is: "staging" or "dest"
  mangaMeta,   \* the metadata attached to the Manga, manga.Metadata()
  dlConf,      \* Format and directory layout the caller downloads with
  dlPc,        \* DownloadChapter: "idle", "staging", "merging", "returned", "panicked"
  dlOpt,       \* the DownloadOptions of the call
  dlRet,       \* what the call returned and what it did on the way
  dlPre,       \* filesystem and metadata when the call began, and what its search gave
  dlCalls      \* DownloadChapter calls made

dlVars == <<fs, stage, tmpFS, mangaMeta, dlConf, dlPc, dlOpt, dlRet, dlPre, dlCalls>>

VARIABLES
  tokenBucket, \* bucket name-to-access-data: the usernames that have an entry
  userBucket,  \* bucket name-to-user: the usernames that have an entry
  provCreds,   \* the user the wrapped provider was last given credentials of
  authRet,     \* the authentication call that returned last
  authOps      \* authentication calls made

authVars == <<tokenBucket, userBucket, provCreds, authRet, authOps>>

VARIABLES
  sField,      \* store.store: the handle the shared field holds, by its opener
  sPc,         \* per goroutine: "idle", "open", "access", "close", "done"
  sWant,       \* per goroutine: the bucket its store method opens
  sHit,        \* per goroutine: the handle its Get or Set acted on
  sClosed      \* the handles Close was called on

storeVars == <<sField, sPc, sWant, sHit, sClosed>>

VARIABLES
  rd           \* Client.ReadChapter: the call made and what it did

readVars == <<rd>>

VARIABLES
  pPc,         \* the function under evaluation and how far it is
  pIn,         \* its arguments
  pOut         \* what it returned

pureVars == <<pPc, pIn, pOut>>

VARIABLES
  alTokens,    \* the Anilist store: the users a token is cached of
  alUsers,     \* the Anilist store: the users a user record is cached of
  alAuthData,  \* Anilist.authData: the user whose token the client holds
  alUser,      \* Anilist.user
  alRet,       \* the Anilist call that returned last
  alOps        \* Anilist calls made

anilistVars == <<alTokens, alUsers, alAuthData, alUser, alRet, alOps>>

VARIABLES
  ccPc,        \* per DownloadChapter call: how far it is
  ccSkip,      \* per call: options.SkipIfExists
  ccSaw,       \* per call: what existsFunc answered
  ccStaged,    \* per call: its staging filesystem holds the chapter
  ccFetched,   \* per call: it fetched the pages
  ccStatus,    \* per call: the ChapterStatus it reports
  ccDest       \* the destination: the call whose chapter file it holds

raceVars == <<ccPc, ccSkip, ccSaw, ccStaged, ccFetched, ccStatus, ccDest>>

moreVars == <<anilistVars, raceVars>>

auxVars == <<authVars, storeVars, readVars, pureVars, moreVars>>

vars == <<batchVars, cacheVars, dlVars, auxVars>>

AnyByID == [IDPool -> UNION { ByIDAnswers(id) : id \in IDPool }]

\* one provider answer per id, each an answer for that id
ByIDChoices == { f \in AnyByID : \A id \in IDPool : f[id] \in ByIDAnswers(id) }

NotFoundByID == [id \in IDPool |-> [err |-> FALSE, ok |-> FALSE, meta |-> NoMeta]]

\* Search(query) will ask the provider to search
AsksSearch(query) == ~Lookup(cacheMode, q2i, query).found

\* Search(query) will ask the provider for an id
AsksByID(query) ==
  LET hit == Lookup(cacheMode, q2i, query)
  IN  hit.found /\ \E k \in 1..Len(hit.val) : ~Lookup(cacheMode, i2m, Itoa(hit.val[k])).found

\* the provider answers a Search(query) can meet
AnswersOfSearch(query) ==
  IF AsksSearch(query) THEN SearchAnswers ELSE { [err |-> FALSE, metas |-> <<>>] }

AnswersOfByID(query) ==
  IF AsksByID(query) THEN ByIDChoices ELSE { NotFoundByID }

NoOp ==
  [op |-> "none", key |-> <<>>, id |-> 0, tries |-> 0, step |-> 0, metas |-> <<>>,
   found |-> FALSE, err |-> NoErr, pcalls |-> 0, idcalls |-> 0, wrote |-> FALSE,
   answered |-> "none", allEmpty |-> TRUE,
   hasID |-> FALSE, idStep |-> "none", bind |-> "none", attempts |-> 0, seen |-> <<>>]

\* by: the method that runs the loop; hasID, idStep: whether the Manga
\* carries an id of the provider's source and what the search by id gave;
\* bind: what the title-to-id entry gave; attempts, seen: the Search calls
\* of the loop and the list the last one returned
NoFC == [title |-> <<>>, orig |-> <<>>, tries |-> 0, step |-> 0, i |-> 0,
         pcalls |-> 0, idcalls |-> 0, allEmpty |-> TRUE,
         by |-> "FindClosest", hasID |-> FALSE, idStep |-> "none", bind |-> "none",
         attempts |-> 0, seen |-> <<>>]

InitCache ==
  /\ cacheMode = "kept"
  /\ q2i = <<>>
  /\ t2i = <<>>
  /\ i2m = <<>>
  /\ opCount = 0
  /\ last = NoOp
  /\ prev = NoOp
  /\ fcPc = "idle"
  /\ fc = NoFC
  /\ provEmpty = TRUE

\* the wrapper made with DefaultProviderWithCacheOptions: its CacheStore
\* answers every open with syncmap.NewStore, a store of its own that is
\* empty, so nothing written through one handle is there for the next
InitCacheDefault ==
  /\ cacheMode = "fresh"
  /\ q2i = <<>>
  /\ t2i = <<>>
  /\ i2m = <<>>
  /\ opCount = 0
  /\ last = NoOp
  /\ prev = NoOp
  /\ fcPc = "idle"
  /\ fc = NoFC
  /\ provEmpty = TRUE

\* the wrapper is free and may be given one more operation
MayStart == fcPc = "idle" /\ opCount < MaxOps

Returned(rec) ==
  /\ last' = rec
  /\ prev' = last

StoreOf(c) ==
  /\ q2i' = c.q2i
  /\ t2i' = c.t2i
  /\ i2m' = c.i2m

\* the provider's answers used by a step that ran in context c were empty
AnswersEmpty(c, answer, byID) ==
  /\ c.pcalls > 0 => (~answer.err /\ answer.metas = <<>>)
  /\ c.idcalls > 0 => \A id \in DOMAIN byID : ~byID[id].err /\ ~byID[id].ok

\* ProviderWithCache.SearchByID(id)
SearchByID ==
  /\ MayStart
  /\ \E id \in IDPool :
     \E answer \in IF Lookup(cacheMode, i2m, Itoa(id)).found
                     THEN { NotFoundByID[id] } ELSE ByIDAnswers(id) :
     \E failAt \in 0..SearchByIDOp(Ctx(cacheMode, q2i, t2i, i2m, 0), id, answer).c.n :
       LET r == SearchByIDOp(Ctx(cacheMode, q2i, t2i, i2m, failAt), id, answer)
       IN  /\ StoreOf(r.c)
           /\ Returned([NoOp EXCEPT !.op = "SearchByID", !.id = id,
                          !.metas = IF r.found THEN <<r.meta>> ELSE <<>>,
                          !.found = r.found, !.err = r.err,
                          !.pcalls = r.c.pcalls, !.idcalls = r.c.idcalls,
                          !.wrote = (Itoa(id) \in DOMAIN r.c.i2m /\ Itoa(id) \notin DOMAIN i2m),
                          !.answered = IF r.c.idcalls = 0 THEN "none"
                                       ELSE IF answer.err THEN "error"
                                       ELSE IF answer.ok THEN "found" ELSE "not found"])
           /\ provEmpty' = (provEmpty /\ (r.c.idcalls > 0 => (~answer.err /\ ~answer.ok)))
  /\ opCount' = opCount + 1
  /\ UNCHANGED <<cacheMode, fcPc, fc>>
  /\ UNCHANGED <<batchVars, dlVars, auxVars>>

\* ProviderWithCache.Search(query)
Search ==
  /\ MayStart
  /\ \E query \in QueryPool :
     \E answer \in AnswersOfSearch(query), byID \in AnswersOfByID(query) :
     \E failAt \in 0..SearchOp(Ctx(cacheMode, q2i, t2i, i2m, 0), query, answer, byID).c.n :
       LET r == SearchOp(Ctx(cacheMode, q2i, t2i, i2m, failAt), query, answer, byID)
       IN  /\ StoreOf(r.c)
           /\ Returned([NoOp EXCEPT !.op = "Search", !.key = query,
                          !.metas = r.metas, !.err = r.err,
                          !.pcalls = r.c.pcalls, !.idcalls = r.c.idcalls])
           /\ provEmpty' = (provEmpty /\ AnswersEmpty(r.c, answer, byID))
  /\ opCount' = opCount + 1
  /\ UNCHANGED <<cacheMode, fcPc, fc>>
  /\ UNCHANGED <<batchVars, dlVars, auxVars>>

\* ProviderWithCache.BindTitleWithID(title, id)
BindTitleWithID ==
  /\ MayStart
  /\ \E title \in TitlePool, id \in IDPool, failAt \in 0..1 :
       LET c1 == Tick(Ctx(cacheMode, q2i, t2i, i2m, failAt))
       IN  IF Fails(c1)
             THEN /\ Returned([NoOp EXCEPT !.op = "BindTitleWithID", !.key = title,
                                 !.id = id, !.err = WrapError("cache")])
                  /\ UNCHANGED <<q2i, t2i, i2m>>
             ELSE /\ Returned([NoOp EXCEPT !.op = "BindTitleWithID", !.key = title,
                                 !.id = id])
                  /\ StoreOf(setTitleID(c1, title, id))
  /\ opCount' = opCount + 1
  /\ UNCHANGED <<cacheMode, fcPc, fc, provEmpty>>
  /\ UNCHANGED <<batchVars, dlVars, auxVars>>

\* the record of a FindClosest that returns
FCRecord(f, meta, found, err) ==
  [NoOp EXCEPT !.op = f.by, !.key = f.orig, !.tries = f.tries, !.step = f.step,
     !.metas = IF found THEN <<meta>> ELSE <<>>, !.found = found, !.err = err,
     !.pcalls = f.pcalls, !.idcalls = f.idcalls,
     !.hasID = f.hasID, !.idStep = f.idStep, !.bind = f.bind,
     !.attempts = f.attempts, !.seen = f.seen]

\* FindClosest returns
FCReturn(f, meta, found, err) ==
  /\ Returned(FCRecord(f, meta, found, err))
  /\ fcPc' = "idle"
  /\ fc' = NoFC

\* ProviderWithCache.FindClosest(title, tries, step) up to the call of
\* findClosest: the title-to-id entry, then the id-to-manga entry.
FCBegin ==
  /\ MayStart
  /\ \E args \in FindClosestArgs, failAt \in 0..2 :
       LET title == args[1]
           tries == args[2]
           step  == args[3]
           f  == [NoFC EXCEPT !.title = title, !.orig = title, !.tries = tries, !.step = step]
           c1 == Tick(Ctx(cacheMode, q2i, t2i, i2m, failAt))
           t  == Lookup(c1.mode, c1.t2i, title)
           c2 == Tick(c1)
           m  == IF t.found THEN Lookup(c2.mode, c2.i2m, Itoa(t.val))
                 ELSE [found |-> FALSE, val |-> <<>>]
       IN  IF Fails(c1)
             THEN FCReturn([f EXCEPT !.bind = "cache"], NoMeta, FALSE, WrapError("cache"))
           ELSE IF t.found /\ Fails(c2)
             THEN FCReturn([f EXCEPT !.bind = "cache"], NoMeta, FALSE, WrapError("cache"))
           ELSE IF t.found /\ m.found
             THEN FCReturn([f EXCEPT !.bind = "found"], m.val, TRUE, NoErr)
           ELSE /\ fcPc' = "loop"
                /\ fc' = [f EXCEPT !.bind = "nothing"]
                /\ UNCHANGED <<last, prev>>
  /\ opCount' = opCount + 1
  /\ UNCHANGED <<cacheMode, q2i, t2i, i2m, provEmpty>>
  /\ UNCHANGED <<batchVars, dlVars, auxVars>>

\* a retry that does not count
NextTry_noCount(f, title) == [f EXCEPT !.title = title]

\* findClosest: the loop variables of the next attempt
NextTry(f, title) == [f EXCEPT !.title = title, !.i = @ + 1]

\* a closest match taken from the end of the list
Closest_last(metas) == metas[Len(metas)]

\* closest := metas[0]
Closest(metas) == metas[1]

\* a title-to-id entry written under the title the loop has shortened
TitleKey_shortened(f) == f.title

\* p.store.setTitleID(title, id): title is the parameter of FindClosest,
\* which the loop of findClosest never changes
TitleKey(f) == f.orig

\* findClosest: the loop test and one attempt; on a result, the rest of
\* FindClosest (the title-to-id entry is written under the title as passed).
FCTry ==
  /\ fcPc = "loop"
  /\ IF fc.i >= fc.tries
       THEN /\ FCReturn(fc, NoMeta, FALSE, NoErr)
            /\ UNCHANGED <<q2i, t2i, i2m, provEmpty>>
       ELSE
         \E answer \in AnswersOfSearch(fc.title), byID \in AnswersOfByID(fc.title) :
         \E failAt \in
            0..(SearchOp(Ctx(cacheMode, q2i, t2i, i2m, 0), fc.title, answer, byID).c.n + 1) :
           LET r  == SearchOp(Ctx(cacheMode, q2i, t2i, i2m, failAt), fc.title, answer, byID)
               f  == [fc EXCEPT !.pcalls = @ + r.c.pcalls, !.idcalls = @ + r.c.idcalls,
                                !.attempts = @ + 1, !.seen = r.metas]
               id == Atoi(Closest(r.metas).raw)
               c1 == Tick(r.c)
               sh == Shorten(fc.title, fc.step)
           IN  /\ provEmpty' = (provEmpty /\ AnswersEmpty(r.c, answer, byID))
               /\ IF r.err # NoErr
                    THEN /\ FCReturn(f, NoMeta, FALSE, WrapError(r.err.origin))
                         /\ StoreOf(r.c)
                  ELSE IF Len(r.metas) > 0
                    THEN IF ~id.ok
                           THEN /\ FCReturn(f, NoMeta, FALSE, WrapError("atoi"))
                                /\ StoreOf(r.c)
                         ELSE IF Fails(c1)
                           THEN /\ FCReturn(f, NoMeta, FALSE, WrapError("cache"))
                                /\ StoreOf(r.c)
                         ELSE /\ FCReturn(f, Closest(r.metas), TRUE, NoErr)
                              /\ StoreOf(setTitleID(c1, TitleKey(fc), id.val))
                  ELSE IF sh.stop
                    THEN /\ FCReturn(f, NoMeta, FALSE, NoErr)
                         /\ StoreOf(r.c)
                  ELSE /\ fc' = NextTry(f, sh.title)
                       /\ StoreOf(r.c)
                       /\ UNCHANGED <<fcPc, last, prev>>
  /\ UNCHANGED <<cacheMode, opCount>>
  /\ UNCHANGED <<batchVars, dlVars, auxVars>>

\* the first operation made on the wrapper is a FindClosest
FCFirst == opCount = 0 /\ FCBegin

\* a cache as an earlier run left it: Search("sh") had returned item 1
InitCacheWarm ==
  /\ cacheMode = "kept"
  /\ q2i = [k \in { <<"s", "h">> } |-> <<1>>]
  /\ t2i = <<>>
  /\ i2m = [k \in { <<"1">> } |-> [raw |-> <<"1">>, rev |-> 1]]
  /\ opCount = 0
  /\ last = NoOp
  /\ prev = NoOp
  /\ fcPc = "idle"
  /\ fc = NoFC
  /\ provEmpty = FALSE

NextFindClosest == FCFirst \/ FCTry

NextCache ==
  \/ SearchByID
  \/ Search
  \/ BindTitleWithID
  \/ FCBegin
  \/ FCTry

PageIdx == 1..MaxPages

NoRet == [pages |-> <<>>, isNil |-> TRUE, err |-> Nil]

InitBatch ==
  /\ bPc = "idle"
  /\ bIn = <<>>
  /\ gPc = [i \in PageIdx |-> "none"]
  /\ downloadedPages = <<>>
  /\ gErr = Nil
  /\ bCtx = FALSE
  /\ bCalls = [i \in PageIdx |-> 0]
  /\ bFailed = {}
  /\ bOrder = <<>>
  /\ bRet = NoRet
  /\ bArchive = <<>>

\* DownloadPagesInBatch up to g.Wait: the empty-input error, else one
\* goroutine per page is started.
BatchCall ==
  /\ bPc = "idle"
  /\ \E pages \in SeqsUpTo(PagePool, MaxPages) :
       /\ bIn' = pages
       /\ IF Len(pages) = 0
            THEN /\ bPc' = "returned"
                 /\ bRet' = [pages |-> <<>>, isNil |-> TRUE, err |-> "no pages provided for chapter"]
                 /\ UNCHANGED <<gPc, downloadedPages>>
            ELSE /\ bPc' = "running"
                 /\ downloadedPages' = [i \in 1..Len(pages) |-> NilPage]
                 /\ gPc' = [i \in PageIdx |-> IF i <= Len(pages) THEN "ready" ELSE "none"]
                 /\ UNCHANGED bRet
  /\ gErr' = Nil
  /\ bCtx' = FALSE
  /\ bCalls' = [i \in PageIdx |-> 0]
  /\ bFailed' = {}
  /\ bOrder' = <<>>
  /\ bArchive' = <<>>
  /\ UNCHANGED <<cacheVars, dlVars, auxVars>>

\* a goroutine that stores its page in the first slot still free
StorePage_firstFree(dp, i, page) ==
  LET free == { k \in 1..Len(dp) : dp[k] = NilPage }
  IN  [dp EXCEPT ![CHOOSE k \in free : \A m \in free : k <= m] = page]

\* where goroutine i stores its page: downloadedPages[i] = downloaded
StorePage(dp, i, page) == [dp EXCEPT ![i] = page]

\* goroutine i enters DownloadPage: a page that already carries its image
\* is returned as it is, any other page is requested from the provider.
GoStart(i) ==
  /\ bPc = "running"
  /\ gPc[i] = "ready"
  /\ IF IsPageWithImage(bIn[i])
       THEN /\ downloadedPages' = StorePage(downloadedPages, i, bIn[i])
            /\ gPc' = [gPc EXCEPT ![i] = "done"]
            /\ bOrder' = Append(bOrder, i)
            /\ UNCHANGED bCalls
       ELSE /\ gPc' = [gPc EXCEPT ![i] = "fetching"]
            /\ bCalls' = [bCalls EXCEPT ![i] = @ + 1]
            /\ UNCHANGED <<downloadedPages, bOrder>>
  /\ UNCHANGED <<bPc, bIn, gErr, bCtx, bFailed, bRet, bArchive>>
  /\ UNCHANGED <<cacheVars, dlVars, auxVars>>

\* GetPageImage of goroutine i succeeds
GoFetched(i) ==
  /\ bPc = "running"
  /\ gPc[i] = "fetching"
  /\ downloadedPages' =
       StorePage(downloadedPages, i, [bIn[i] EXCEPT !.img = ProviderImage(bIn[i])])
  /\ gPc' = [gPc EXCEPT ![i] = "done"]
  /\ bOrder' = Append(bOrder, i)
  /\ UNCHANGED <<bPc, bIn, gErr, bCtx, bCalls, bFailed, bRet, bArchive>>
  /\ UNCHANGED <<cacheVars, dlVars, auxVars>>

\* GetPageImage of goroutine i fails (on its own, or because the group's
\* context was cancelled): errgroup keeps the first error and cancels.
GoFailed(i) ==
  /\ bPc = "running"
  /\ gPc[i] = "fetching"
  /\ gErr' = IF gErr = Nil THEN ProviderError(bIn[i]) ELSE gErr
  /\ bCtx' = TRUE
  /\ bFailed' = bFailed \cup {i}
  /\ gPc' = [gPc EXCEPT ![i] = "done"]
  /\ UNCHANGED <<bPc, bIn, downloadedPages, bCalls, bOrder, bRet, bArchive>>
  /\ UNCHANGED <<cacheVars, dlVars, auxVars>>

\* a return that hands out the slice together with the error
BatchResult_partial(err, dp) == [pages |-> dp, isNil |-> FALSE, err |-> err]

\* what DownloadPagesInBatch returns once g.Wait returned err
BatchResult(err, dp) ==
  IF err # Nil
    THEN [pages |-> <<>>, isNil |-> TRUE, err |-> err]
    ELSE [pages |-> dp, isNil |-> FALSE, err |-> Nil]

\* g.Wait returns when every goroutine has returned
WaitReady == \A i \in 1..Len(bIn) : gPc[i] = "done"

BatchWait ==
  /\ bPc = "running"
  /\ WaitReady
  /\ bRet' = BatchResult(gErr, downloadedPages)
  /\ bPc' = "returned"
  /\ bCtx' = TRUE
  /\ UNCHANGED <<bIn, gPc, downloadedPages, gErr, bCalls, bFailed, bOrder, bArchive>>
  /\ UNCHANGED <<cacheVars, dlVars, auxVars>>

\* the caller writes the archive from the returned pages
BatchSave ==
  /\ bPc = "returned"
  /\ bRet.err = Nil
  /\ bArchive' = saveZIP(bRet.pages)
  /\ bPc' = "saved"
  /\ UNCHANGED <<bIn, gPc, downloadedPages, gErr, bCtx, bCalls, bFailed, bOrder, bRet>>
  /\ UNCHANGED <<cacheVars, dlVars, auxVars>>

\* the next call
BatchReset ==
  /\ bPc \in {"returned", "saved"}
  /\ bPc' = "idle"
  /\ bIn' = <<>>
  /\ gPc' = [i \in PageIdx |-> "none"]
  /\ downloadedPages' = <<>>
  /\ gErr' = Nil
  /\ bCtx' = FALSE
  /\ bCalls' = [i \in PageIdx |-> 0]
  /\ bFailed' = {}
  /\ bOrder' = <<>>
  /\ bRet' = NoRet
  /\ bArchive' = <<>>
  /\ UNCHANGED <<cacheVars, dlVars, auxVars>>

NextBatch ==
  \/ BatchCall
  \/ \E i \in PageIdx : GoStart(i)
  \/ \E i \in PageIdx : GoFetched(i)
  \/ \E i \in PageIdx : GoFailed(i)
  \/ BatchWait
  \/ BatchSave
  \/ BatchReset

\* ------------------------------------------------------------------------
\* Client.DownloadChapter
\* ------------------------------------------------------------------------

\* DownloadChapter calls made in a row
MaxCalls == 2

DownloadStatusNew == "new"

DownloadStatusSkip == "skip"

DownloadStatusExists == "exists"

DownloadStatusFailed == "failed"

DownloadStatusMissingMetadata == "missing_metadata"

DownloadStatusOverwritten == "overwritten"

\* the status of a function that returned "" for it
DownloadStatusEmpty == ""

StatusFinished == "FINISHED"

StatusReleasing == "RELEASING"

IDSourceProvider == 1

IDSourceAnilist == 2

IDSourceMangaUpdates == 5

IDSourceAnimePlanet == 6

\* A file or directory name is a sequence of text pieces, a path a sequence
\* of names; filepath.Join adds one name to a path.
Join(dir, name) == Append(dir, name)

FilenameSeriesJSON == <<"series.json">>

FilenameCoverJPG == <<"cover.jpg">>

FilenameBannerJPG == <<"banner.jpg">>

FilenameComicInfoXML == <<"ComicInfo.xml">>

\* options.Directory
Directory == << <<"downloads">> >>

ProviderName == <<"provider">>

MangaName == <<"manga">>

VolumeName == <<"Vol. 1">>

\* the chapter name followed by the extension of the format
ChapterName(format) == <<"chapter 1">> \o <<format>>

\* fmt.Sprintf("%04d%s", i+1, page.Extension()) as the name of a file
PageFileName(i, page) ==
  LET ds == Sprintf04d(i + 1)
  IN  [k \in 1..Len(ds) |-> DigitChars[ds[k] + 1]] \o <<page.ext>>

\* A filesystem maps the paths that exist to a directory or to a file with
\* its content: a sequence of named entries (one unnamed entry for a file
\* that is no archive).
Dir == [kind |-> "dir", data |-> <<>>]

File(data) == [kind |-> "file", data |-> data]

NoName == [num |-> <<>>, ext |-> Nil]

Plain(bytes) == << [name |-> NoName, data |-> bytes] >>

\* afero.NewMemMapFs()
NewMemMapFs == [p \in {} |-> Dir]

\* afero.Exists(fs, path)
Exists(f, p) == p \in DOMAIN f

Prefixes(p) == { SubSeq(p, 1, k) : k \in 1..Len(p) }

\* fs.MkdirAll(path, mode)
MkdirAll(f, p) ==
  IF \E q \in Prefixes(p) : q \in DOMAIN f /\ f[q].kind = "file"
    THEN [fs |-> f, err |-> "not a directory"]
    ELSE [fs  |-> [q \in DOMAIN f \cup Prefixes(p) |-> IF q \in DOMAIN f THEN f[q] ELSE Dir],
          err |-> Nil]

\* fs.Create(path) followed by the writes made to the file: the file is
\* truncated and holds what was written
WriteFile(f, p, data) ==
  [q \in DOMAIN f \cup {p} |-> IF q = p THEN File(data) ELSE f[q]]

\* the paths of f at or below p
Below(f, p) == { q \in DOMAIN f : Len(q) >= Len(p) /\ SubSeq(q, 1, Len(p)) = p }

\* f at and below p
Subtree(f, p) == [q \in Below(f, p) |-> f[q]]

\* ---- metadata.Metadata and metadata.Validate

NoID == [IDCode |-> "", IDSource |-> 0, IDRaw |-> <<>>]

\* a nil metadata.Metadata
NilMeta ==
  [nil |-> TRUE, String |-> "", Title |-> "", Authors |-> 0, StartDate |-> 0,
   Status |-> "", ID |-> NoID, ExtraIDs |-> <<>>]

AnilistID(raw) == [IDCode |-> "al", IDSource |-> IDSourceAnilist, IDRaw |-> raw]

\* metadata as the providers hand it out
MetaReleasing ==
  [nil |-> FALSE, String |-> "Manga (releasing)", Title |-> "Manga", Authors |-> 1,
   StartDate |-> 2020, Status |-> StatusReleasing, ID |-> AnilistID(<<"1", "2">>),
   ExtraIDs |-> << AnilistID(<<"1", "2">>) >>]

MetaFinished ==
  [nil |-> FALSE, String |-> "Manga (finished)", Title |-> "Manga", Authors |-> 2,
   StartDate |-> 2020, Status |-> StatusFinished, ID |-> AnilistID(<<"1", "2">>),
   ExtraIDs |-> <<>>]

MetaNoAuthors == [MetaReleasing EXCEPT !.String = "Manga (no authors)", !.Authors = 0]

MetaZeroID == [MetaFinished EXCEPT !.String = "Manga (id 0)", !.ID = AnilistID(<<"0">>)]

\* a validation that takes any integer of the numbered sources
IDvalidate_anyInteger(id) ==
  IF id.IDCode = "" THEN "IDCode must be non-empty"
  ELSE IF id.IDSource = 0 THEN "IDSource must be non-zero"
  ELSE IF id.IDSource = IDSourceProvider THEN Nil
  ELSE IF id.IDSource \in IDSourceAnilist..IDSourceMangaUpdates
    THEN IF ~Atoi(id.IDRaw).ok THEN "ID must be an integer" ELSE Nil
  ELSE IF id.IDSource = IDSourceAnimePlanet
    THEN IF id.IDRaw = <<>> THEN "AnimePlanet ID must be non-empty" ELSE Nil
  ELSE "unexpected IDsource"

\* ID.validate
IDvalidate(id) ==
  IF id.IDCode = "" THEN "IDCode must be non-empty"
  ELSE IF id.IDSource = 0 THEN "IDSource must be non-zero"
  ELSE IF id.IDSource = IDSourceProvider THEN Nil
  ELSE IF id.IDSource \in IDSourceAnilist..IDSourceMangaUpdates
    THEN IF ~Atoi(id.IDRaw).ok THEN "ID must be an integer"
         ELSE IF Atoi(id.IDRaw).val < 1 THEN "ID must be a non-zero positive integer"
         ELSE Nil
  ELSE IF id.IDSource = IDSourceAnimePlanet
    THEN IF id.IDRaw = <<>> THEN "AnimePlanet ID must be non-empty" ELSE Nil
  ELSE "unexpected IDsource"

\* metadata.Validate: Nil, or the error
Validate(m) ==
  IF m.nil THEN "Metadata is nil"
  ELSE IF m.String = "" THEN "String representation must be non-empty"
  ELSE IF m.Title = "" THEN "Title must be non-empty"
  ELSE IF m.Authors = 0 THEN "Authors must contain at least one author"
  ELSE IF m.StartDate = 0 THEN "StartDate must be non-zero"
  ELSE IF m.Status = "" THEN "Status must be non-empty"
  ELSE IF IDvalidate(m.ID) # Nil THEN IDvalidate(m.ID)
  ELSE IF \E k \in 1..Len(m.ExtraIDs) : IDvalidate(m.ExtraIDs[k]) # Nil
    THEN "one of the ExtraIDs is invalid"
  ELSE Nil

\* ---- DownloadOptions

FormatZIP == "zip"

FormatCBZ == "cbz"

FormatImages == "images"

\* Format and directory layout, and the metadata the Manga carries when
\* the first call is made: a flat archive for a Manga without metadata, a
\* comic book archive below the manga and volume directories, loose images
\* below all three
DLConfigs ==
  { [Format |-> FormatZIP, CreateProviderDir |-> FALSE, CreateMangaDir |-> FALSE,
     CreateVolumeDir |-> FALSE, Metadata |-> NilMeta],
    [Format |-> FormatCBZ, CreateProviderDir |-> FALSE, CreateMangaDir |-> TRUE,
     CreateVolumeDir |-> TRUE, Metadata |-> MetaReleasing],
    [Format |-> FormatImages, CreateProviderDir |-> TRUE, CreateMangaDir |-> TRUE,
     CreateVolumeDir |-> TRUE, Metadata |-> MetaReleasing] }

\* WriteSeriesJSON, SkipSeriesJSONIfOngoing, DownloadMangaCover,
\* DownloadMangaBanner, WriteComicInfoXML
SidecarPresets ==
  { <<TRUE, TRUE, TRUE, FALSE, TRUE>>, <<TRUE, FALSE, TRUE, TRUE, TRUE>>,
    <<FALSE, TRUE, FALSE, TRUE, FALSE>> }

\* the DownloadOptions a call is made with
OptionsPool(conf) ==
  { [Format |-> conf.Format, CreateProviderDir |-> conf.CreateProviderDir,
     CreateMangaDir |-> conf.CreateMangaDir, CreateVolumeDir |-> conf.CreateVolumeDir,
     Strict |-> strict, SkipIfExists |-> skip, SearchMetadata |-> search,
     WriteSeriesJSON |-> sc[1], SkipSeriesJSONIfOngoing |-> sc[2],
     DownloadMangaCover |-> sc[3], DownloadMangaBanner |-> sc[4],
     WriteComicInfoXML |-> sc[5]] :
    strict \in BOOLEAN, skip \in BOOLEAN, search \in BOOLEAN, sc \in SidecarPresets }

NoOptions ==
  [Format |-> Nil, CreateProviderDir |-> FALSE, CreateMangaDir |-> FALSE,
   CreateVolumeDir |-> FALSE, Strict |-> FALSE, SkipIfExists |-> FALSE,
   SearchMetadata |-> FALSE, WriteSeriesJSON |-> FALSE, SkipSeriesJSONIfOngoing |-> FALSE,
   DownloadMangaCover |-> FALSE, DownloadMangaBanner |-> FALSE, WriteComicInfoXML |-> FALSE]

\* ---- the layout computed by downloadChapterWithMetadata

\* the directory the chapter goes to
ChapterDir(opt) ==
  LET d1 == IF opt.CreateProviderDir THEN Join(Directory, ProviderName) ELSE Directory
      d2 == IF opt.CreateMangaDir THEN Join(d1, MangaName) ELSE d1
  IN  IF opt.CreateVolumeDir THEN Join(d2, VolumeName) ELSE d2

\* seriesJSONDir, coverDir, bannerDir
SidecarDir(opt) ==
  LET d1 == IF opt.CreateProviderDir THEN Join(Directory, ProviderName) ELSE Directory
  IN  IF opt.CreateMangaDir THEN Join(d1, MangaName) ELSE Directory

ChapterPath(opt) == Join(ChapterDir(opt), ChapterName(opt.Format))

Sidecars == {"SeriesJSONStatus", "CoverStatus", "BannerStatus"}

SidecarFile(field) ==
  IF field = "SeriesJSONStatus" THEN FilenameSeriesJSON
  ELSE IF field = "CoverStatus" THEN FilenameCoverJPG
  ELSE FilenameBannerJPG

SidecarPath(opt, field) == Join(SidecarDir(opt), SidecarFile(field))

\* a series.json that is written for an ongoing series too
SkipSeriesJSON_never(opt, meta) == FALSE

\* skip := options.SkipSeriesJSONIfOngoing && Status() == StatusReleasing
SkipSeriesJSON(opt, meta) == opt.SkipSeriesJSONIfOngoing /\ meta.Status = StatusReleasing

\* the sidecar blocks a call with valid metadata enters
SidecarsOn(opt, meta) ==
  { f \in Sidecars :
      \/ f = "SeriesJSONStatus" /\ opt.WriteSeriesJSON /\ ~SkipSeriesJSON(opt, meta)
      \/ f = "CoverStatus" /\ opt.DownloadMangaCover
      \/ f = "BannerStatus" /\ opt.DownloadMangaBanner }

\* what a sidecar holds once written: metadata.ToSeriesJSON of the metadata,
\* the bytes of the cover and of the banner
SidecarContent(field, meta) ==
  IF field = "SeriesJSONStatus" THEN Plain(meta.String)
  ELSE IF field = "CoverStatus" THEN Plain("cover image")
  ELSE Plain("banner image")

\* ---- what the surroundings of one call do

PageOf(u) == CHOOSE p \in PagePool : p.url = u

\* Provider.ChapterPages: the chapter as the content source lists it at
\* two different times
ChapterPagesPool == { <<PageOf(1), PageOf(2)>>, <<PageOf(3)>> }

\* options.ImageTransformer
ImageTransformer ==
  [img \in {"image1", "image2", "image3", "embedded3"} |->
     IF img = "image1" THEN "image1 transformed"
     ELSE IF img = "image2" THEN "image2 transformed"
     ELSE IF img = "image3" THEN "image3 transformed"
     ELSE "embedded3 transformed"]

\* One run of the surroundings: the step that fails first and aborts
\* (kind, for a loop the iteration k, for a sidecar block the sidecar at),
\* the pages the content source lists, and the sidecars whose write fails.
OkEnv ==
  [kind |-> "ok", k |-> 0, at |-> "", pages |-> <<PageOf(1), PageOf(2)>>, soft |-> {}]

BodyKinds(format) ==
  {"pages", "fetch", "cancel", "transform", "create", "write"}
    \cup (IF format = FormatCBZ THEN {"comicinfo", "header"} ELSE {})

LoopKinds == {"cancel", "transform", "write", "header"}

BodyEnvs(format) ==
  { [OkEnv EXCEPT !.pages = pages] : pages \in ChapterPagesPool }
    \cup { [OkEnv EXCEPT !.kind = kd] : kd \in BodyKinds(format) \ LoopKinds }
    \cup { [OkEnv EXCEPT !.kind = kd, !.k = k] :
             kd \in BodyKinds(format) \cap LoopKinds, k \in 1..Len(OkEnv.pages) }

StageEnvs(opt, bodyRuns, on) ==
  LET early == { [OkEnv EXCEPT !.kind = kd] : kd \in {"mkdir", "exists"} }
      body  == IF bodyRuns THEN BodyEnvs(opt.Format) ELSE {OkEnv}
      side  == { [OkEnv EXCEPT !.kind = kd, !.at = f] :
                   kd \in {"sidecar exists", "sidecar create"}, f \in on }
      soft(e) == IF e = OkEnv THEN { {} } \cup { {f} : f \in on } ELSE { {} }
  IN  UNION { { [e EXCEPT !.soft = sf] : sf \in soft(e) } : e \in early \cup body \cup side }

\* ---- downloadChapter

NoChap ==
  [ChapterStatus |-> Nil, SeriesJSONStatus |-> Nil, ComicInfoXMLStatus |-> Nil,
   CoverStatus |-> Nil, BannerStatus |-> Nil]

\* the pages as DownloadPagesInBatch returns them, e.kind "fetch" failing it
Downloaded(e) ==
  IF Len(e.pages) = 0
    THEN [pages |-> <<>>, isNil |-> TRUE, err |-> "no pages provided for chapter"]
    ELSE BatchResult(IF e.kind = "fetch" THEN "fetch failed" ELSE Nil,
                     [k \in 1..Len(e.pages) |-> [e.pages[k] EXCEPT !.img = ImageOf(e.pages[k])]])

\* the pages after the transform loop: page.SetImage(image)
TransformAll(pages) ==
  [k \in 1..Len(pages) |-> [pages[k] EXCEPT !.img = ImageTransformer[@]]]

\* what a writer that fails at entry k has left behind: the entries before
\* it and the header of entry k
Truncated(entries, k) ==
  SubSeq(entries, 1, k - 1) \o << [entries[k] EXCEPT !.data = Nil] >>

ComicInfoEntry(data) ==
  [name |-> [num |-> <<>>, ext |-> FilenameComicInfoXML[1]], data |-> data]

\* getComicInfoXML: the document, or with an error the zero document
getComicInfoXML(meta, e) ==
  IF e.kind = "comicinfo"
    THEN [doc |-> "ComicInfo (zero value)", err |-> "comicinfo failed"]
    ELSE [doc |-> meta.String, err |-> Nil]

\* saveCBZ: the archive left in the file, the status and the error returned
saveCBZ(pages, comicInfoXml, e) ==
  LET entries == saveZIP(pages)
  IN  IF e.kind = "header"
        THEN [data |-> SubSeq(entries, 1, e.k - 1), status |-> DownloadStatusEmpty,
              err |-> "header failed"]
      ELSE IF e.kind = "write"
        THEN [data |-> Truncated(entries, e.k), status |-> DownloadStatusEmpty, err |-> Nil]
      ELSE IF comicInfoXml = Nil
        THEN [data |-> entries, status |-> DownloadStatusMissingMetadata, err |-> Nil]
      ELSE [data |-> Append(entries, ComicInfoEntry(comicInfoXml)),
            status |-> DownloadStatusNew, err |-> Nil]

\* the loose image files of FormatImages written below path
RECURSIVE WriteImages(_, _, _, _)
WriteImages(f, path, pages, n) ==
  IF n = 0 THEN f
  ELSE WriteFile(WriteImages(f, path, pages, n - 1),
                 Join(path, PageFileName(n - 1, pages[n])), Plain(pages[n].img))

\* a cancellation seen only after the page of the iteration is transformed
TransformedBefore_late(k) == k

\* the pages transformed when iteration k of the loop ends the call: the
\* select on ctx.Done() and the transform come before page.SetImage
TransformedBefore(k) == k - 1

BodyResult(fss, status, err, raised, batch, transformed) ==
  [fss |-> fss, status |-> status, err |-> err, raised |-> raised, asked |-> TRUE,
   batch |-> batch, transformed |-> transformed]

\* downloadChapter on the client whose filesystem is fss[cfs]
downloadChapter(fss, cfs, path, opt, meta, e) ==
  LET got    == Downloaded(e)
      n      == Len(e.pages)
      pages  == TransformAll(got.pages)
      W      == fss[cfs]
      put(f) == [fss EXCEPT ![cfs] = f]
      wantCI == opt.WriteComicInfoXML /\ Validate(meta) = Nil
      ci     == getComicInfoXML(meta, e)
      cbz    == saveCBZ(pages, IF wantCI THEN ci.doc ELSE Nil, e)
      mk     == MkdirAll(W, path)
  IN  IF e.kind = "pages"
        THEN BodyResult(fss, DownloadStatusEmpty, "pages failed", "pages", 0, 0)
      ELSE IF got.err # Nil
        THEN BodyResult(fss, DownloadStatusEmpty, got.err, "fetch", n, 0)
      ELSE IF e.kind = "cancel"
        THEN BodyResult(fss, DownloadStatusEmpty, "context canceled", "cancel", n,
                        TransformedBefore(e.k))
      ELSE IF e.kind = "transform"
        THEN BodyResult(fss, DownloadStatusEmpty, "transform failed", "transform", n,
                        TransformedBefore(e.k))
      ELSE IF opt.Format = FormatZIP
        THEN IF e.kind = "create"
               THEN BodyResult(fss, DownloadStatusEmpty, "create failed", "create", n, n)
             ELSE IF e.kind = "write"
               THEN BodyResult(put(WriteFile(W, path, Truncated(saveZIP(pages), e.k))),
                               DownloadStatusSkip, "write failed", "write", n, n)
             ELSE BodyResult(put(WriteFile(W, path, saveZIP(pages))),
                             DownloadStatusSkip, Nil, Nil, n, n)
      ELSE IF opt.Format = FormatCBZ
        THEN IF wantCI /\ ci.err # Nil /\ opt.Strict
               THEN BodyResult(fss, DownloadStatusEmpty, ci.err, "comicinfo", n, n)
             ELSE IF e.kind = "create"
               THEN BodyResult(fss, DownloadStatusEmpty, "create failed", "create", n, n)
             ELSE BodyResult(put(WriteFile(W, path, cbz.data)), cbz.status, cbz.err,
                             IF cbz.err # Nil THEN "header" ELSE Nil, n, n)
      ELSE IF e.kind = "create" \/ mk.err # Nil
        THEN BodyResult(fss, DownloadStatusEmpty, "mkdir failed", "create", n, n)
      ELSE IF e.kind = "write"
        THEN BodyResult(put(WriteImages(mk.fs, path, pages, e.k - 1)),
                        DownloadStatusEmpty, "write failed", "write", n, n)
      ELSE BodyResult(put(WriteImages(mk.fs, path, pages, n)),
                      DownloadStatusSkip, Nil, Nil, n, n)

\* ---- downloadChapterWithMetadata

\* an existence test made on the filesystem of the temp client
existsFunc_staging(fss, path) == Exists(fss.staging, path)

\* existsFunc: afero.Exists on the filesystem of the client DownloadChapter
\* was called on
existsFunc(fss, path) == Exists(fss.dest, path)

\* the filesystem a sidecar is created in: c.options.FS of the client that
\* runs downloadChapterWithMetadata
SidecarFS(cfs) == cfs

\* the chapter body is downloaded although SkipIfExists found it
NeedsBody_always(chapterExists, skipIfExists) == TRUE

\* if !chapterExists || !options.SkipIfExists
NeedsBody(chapterExists, skipIfExists) == ~chapterExists \/ ~skipIfExists

\* ChapterStatus after the body was written
ChapterStatusWritten(skipIfExists) ==
  IF ~skipIfExists THEN DownloadStatusOverwritten ELSE DownloadStatusNew

\* the call so far: the filesystems, the record downChap, the error and the
\* step that raised it, what the body step did, and whether
\* downloadChapterWithMetadata has returned
CallState(fss, chap, err, raised, body, chapterExists, done) ==
  [fss |-> fss, chap |-> chap, err |-> err, raised |-> raised, existed |-> chapterExists,
   asked |-> body.asked, batch |-> body.batch, transformed |-> body.transformed,
   done |-> done]

NoBody ==
  [fss |-> <<>>, status |-> DownloadStatusSkip, err |-> Nil, raised |-> Nil,
   asked |-> FALSE, batch |-> 0, transformed |-> 0]

\* downChap as it is first filled in
InitialChap ==
  [ChapterStatus |-> DownloadStatusExists, SeriesJSONStatus |-> DownloadStatusSkip,
   ComicInfoXMLStatus |-> DownloadStatusSkip, CoverStatus |-> DownloadStatusSkip,
   BannerStatus |-> DownloadStatusSkip]

\* a metadata test that finds every metadata usable
MetadataMissing_never(meta) == FALSE

\* if metadata.Validate(manga.Metadata()) != nil
MetadataMissing(meta) == Validate(meta) # Nil

\* after the body step: its error, else the record and the metadata test
AfterBody(body, ran, chapterExists, meta, opt) ==
  LET chap1 == IF ran
                 THEN [InitialChap EXCEPT
                         !.ComicInfoXMLStatus = body.status,
                         !.ChapterStatus = ChapterStatusWritten(opt.SkipIfExists)]
                 ELSE InitialChap
  IN  IF body.err # Nil
        THEN CallState(body.fss, NoChap, body.err, body.raised, body, chapterExists, TRUE)
      ELSE IF MetadataMissing(meta)
        THEN CallState(body.fss,
                       [chap1 EXCEPT !.SeriesJSONStatus = DownloadStatusMissingMetadata,
                                     !.CoverStatus = DownloadStatusMissingMetadata,
                                     !.BannerStatus = DownloadStatusMissingMetadata],
                       Nil, Nil, body, chapterExists, TRUE)
      ELSE CallState(body.fss, chap1, Nil, Nil, body, chapterExists, FALSE)

\* downloadChapterWithMetadata from the existence test to the metadata test
ChapterStep(fss1, cfs, meta, opt, e) ==
  IF e.kind = "exists"
    THEN CallState(fss1, NoChap, "exists failed", "exists", NoBody, FALSE, TRUE)
  ELSE IF NeedsBody(existsFunc(fss1, ChapterPath(opt)), opt.SkipIfExists)
    THEN AfterBody(downloadChapter(fss1, cfs, ChapterPath(opt), opt, meta, e), TRUE,
                   existsFunc(fss1, ChapterPath(opt)), meta, opt)
  ELSE AfterBody([NoBody EXCEPT !.fss = fss1], FALSE, TRUE, meta, opt)

\* downloadChapterWithMetadata up to the sidecar blocks
DirectoryStep(fss, cfs, meta, opt, e) ==
  LET mk == MkdirAll(fss[cfs], ChapterDir(opt))
  IN  IF e.kind = "mkdir" \/ mk.err # Nil
        THEN CallState(fss, NoChap, "mkdir failed", "mkdir", NoBody, FALSE, TRUE)
        ELSE ChapterStep([fss EXCEPT ![cfs] = mk.fs], cfs, meta, opt, e)

Stop(x, err, raised) == [x EXCEPT !.chap = NoChap, !.err = err, !.raised = raised, !.done = TRUE]

\* one of the three sidecar blocks, entered by a call x that has not returned
Sidecar(x, cfs, field, opt, meta, e) ==
  LET path == SidecarPath(opt, field)
  IN  IF x.done \/ field \notin SidecarsOn(opt, meta) THEN x
      ELSE IF e.kind = "sidecar exists" /\ e.at = field
        THEN Stop(x, "exists failed", "sidecar exists")
      ELSE IF existsFunc(x.fss, path)
        THEN [x EXCEPT !.chap[field] = DownloadStatusExists]
      ELSE IF e.kind = "sidecar create" /\ e.at = field
        THEN Stop(x, "create failed", "sidecar create")
      ELSE IF field \in e.soft
        THEN IF opt.Strict
               THEN Stop([x EXCEPT !.fss[SidecarFS(cfs)] = WriteFile(@, path, <<>>)],
                         "metadata.Error", "sidecar write")
               ELSE [x EXCEPT !.fss[SidecarFS(cfs)] = WriteFile(@, path, <<>>),
                              !.chap[field] = DownloadStatusFailed]
      ELSE [x EXCEPT !.fss[SidecarFS(cfs)] = WriteFile(@, path, SidecarContent(field, meta)),
                     !.chap[field] = DownloadStatusNew]

\* downloadChapterWithMetadata on the client whose filesystem is fss[cfs]:
\* the directories and the chapter, then series.json, cover and banner
downloadChapterWithMetadata(fss, cfs, meta, opt, e) ==
  CHOOSE r \in
    { Sidecar(x2, cfs, "BannerStatus", opt, meta, e) : x2 \in
      { Sidecar(x1, cfs, "CoverStatus", opt, meta, e) : x1 \in
        { Sidecar(x0, cfs, "SeriesJSONStatus", opt, meta, e) : x0 \in
          { DirectoryStep(fss, cfs, meta, opt, e) } } } } : TRUE

\* ---- the merge of the staged tree into the destination

\* The staged paths a merge has copied when it stops early with an error:
\* nothing, or the directories of the staged tree and none of its files.
MergeStops(src) ==
  { {}, { p \in DOMAIN src : src[p].kind = "dir" } } \ {DOMAIN src}

\* mergeDirectories(modeDir, dstFS, dstDir, srcFS, srcDir) having copied the
\* paths in copied: a directory is made where it is missing, a file is
\* copied over whatever the destination holds
mergeDirectories(dst, src, copied) ==
  [fs  |-> [p \in DOMAIN dst \cup copied |->
              IF p \in copied /\ ~(p \in DOMAIN dst /\ src[p].kind = "dir") THEN src[p]
              ELSE dst[p]],
   err |-> IF copied = DOMAIN src THEN Nil ELSE "merge failed"]

\* ---- DownloadChapter

\* a temp client that keeps the filesystem of the client it is made from
NewTmpClientFS_shared == "dest"

\* tmpClient.options.FS = afero.NewMemMapFs()
NewTmpClientFS == "staging"

\* a staging error that does not stop DownloadChapter before the merge
AfterStage_ignoreErr(err) == "merging"

\* if err != nil { return nil, err }, else on to the merge
AfterStage(err) == IF err # Nil THEN "returned" ELSE "merging"

\* a SetMetadata that keeps the old metadata when the search found nothing
SetMetadata_keepFound(old, s) ==
  IF s.kind = "result" /\ ~s.meta.nil THEN s.meta ELSE old

\* the Manga's metadata after the metadata step: manga.SetMetadata(m) when
\* the search ran and returned no error
SetMetadata(old, s) == IF s.kind = "result" THEN s.meta ELSE old

\* a validation error that never stops the call
StrictAborts_never(err, strict) == FALSE

\* if err := metadata.Validate(manga.Metadata()); err != nil && options.Strict
StrictAborts(err, strict) == err # Nil /\ strict

\* Client.SearchMetadata(manga): no provider or a provider error, a nil
\* dereference in SearchByManga when the Manga carries nil metadata, nothing
\* found, or the metadata found
SearchMetadata(meta) ==
  IF meta.nil
    THEN { [kind |-> "error", meta |-> NilMeta], [kind |-> "panic", meta |-> NilMeta] }
    ELSE { [kind |-> "error", meta |-> NilMeta], [kind |-> "result", meta |-> NilMeta] }
           \cup { [kind |-> "result", meta |-> m] :
                    m \in {MetaFinished, MetaNoAuthors} }

NoSearch == [kind |-> "none", meta |-> NilMeta]

NoDLRet ==
  [err |-> Nil, raised |-> Nil, chap |-> NoChap, existed |-> FALSE, asked |-> FALSE,
   batch |-> 0, transformed |-> 0]

NoPre == [fs |-> NewMemMapFs, meta |-> NilMeta, search |-> NoSearch]

InitDL ==
  /\ fs = NewMemMapFs
  /\ stage = NewMemMapFs
  /\ tmpFS = "staging"
  /\ dlConf \in DLConfigs
  /\ mangaMeta = dlConf.Metadata
  /\ dlPc = "idle"
  /\ dlOpt = NoOptions
  /\ dlRet = NoDLRet
  /\ dlPre = NoPre
  /\ dlCalls = 0

\* the download pipeline at rest
DLQuiet ==
  /\ InitDL
  /\ dlConf.Format = FormatZIP

\* DownloadChapter up to the call of downloadChapterWithMetadata: the
\* metadata search, SetMetadata, the validation and the temp client
DLCall ==
  /\ dlPc = "idle"
  /\ dlCalls < MaxCalls
  /\ \E opt \in OptionsPool(dlConf) :
     \E s \in IF opt.SearchMetadata THEN SearchMetadata(mangaMeta) ELSE {NoSearch} :
       LET m == SetMetadata(mangaMeta, s)
       IN  /\ dlOpt' = opt
           /\ mangaMeta' = m
           /\ dlPre' = [fs |-> fs, meta |-> mangaMeta, search |-> s]
           /\ IF s.kind = "panic"
                THEN /\ dlPc' = "panicked"
                     /\ dlRet' = [NoDLRet EXCEPT !.raised = "panic"]
              ELSE IF s.kind = "error"
                THEN /\ dlPc' = "returned"
                     /\ dlRet' = [NoDLRet EXCEPT !.err = "search failed", !.raised = "metadata"]
              ELSE IF StrictAborts(Validate(m), opt.Strict)
                THEN /\ dlPc' = "returned"
                     /\ dlRet' = [NoDLRet EXCEPT !.err = Validate(m), !.raised = "validate"]
              ELSE /\ dlPc' = "staging"
                   /\ dlRet' = NoDLRet
  /\ tmpFS' = NewTmpClientFS
  /\ stage' = NewMemMapFs
  /\ dlCalls' = dlCalls + 1
  /\ UNCHANGED <<fs, dlConf>>
  /\ UNCHANGED <<batchVars, cacheVars, auxVars>>

\* tmpClient.downloadChapterWithMetadata and the test of its error
DLStage ==
  /\ dlPc = "staging"
  /\ \E e \in StageEnvs(dlOpt,
                        NeedsBody(Exists(fs, ChapterPath(dlOpt)), dlOpt.SkipIfExists),
                        IF MetadataMissing(mangaMeta) THEN {}
                        ELSE SidecarsOn(dlOpt, mangaMeta)) :
       \E r \in { downloadChapterWithMetadata([staging |-> stage, dest |-> fs], tmpFS,
                                                mangaMeta, dlOpt, e) } :
           /\ stage' = r.fss.staging
           /\ fs' = r.fss.dest
           /\ dlRet' = [err |-> r.err, raised |-> r.raised, chap |-> r.chap,
                        existed |-> r.existed, asked |-> r.asked, batch |-> r.batch,
                        transformed |-> r.transformed]
           /\ dlPc' = AfterStage(r.err)
  /\ UNCHANGED <<tmpFS, mangaMeta, dlConf, dlOpt, dlPre, dlCalls>>
  /\ UNCHANGED <<batchVars, cacheVars, auxVars>>

\* the merge of the staged tree, which may stop early with an error, and
\* the return of DownloadChapter
DLMerge ==
  /\ dlPc = "merging"
  /\ LET src == IF tmpFS = "staging" THEN stage ELSE fs
     IN  \E copied \in MergeStops(src) \cup {DOMAIN src} :
           LET r == mergeDirectories(fs, src, copied)
           IN  /\ fs' = r.fs
               /\ dlRet' = IF r.err = Nil THEN dlRet
                           ELSE [dlRet EXCEPT !.err = r.err, !.raised = "merge",
                                              !.chap = NoChap]
  /\ dlPc' = "returned"
  /\ UNCHANGED <<stage, tmpFS, mangaMeta, dlConf, dlOpt, dlPre, dlCalls>>
  /\ UNCHANGED <<batchVars, cacheVars, auxVars>>

\* the caller has the result; the temp client and its filesystem are dropped
DLDone ==
  /\ dlPc = "returned"
  /\ dlPc' = "idle"
  /\ stage' = NewMemMapFs
  /\ dlOpt' = NoOptions
  /\ dlRet' = NoDLRet
  /\ dlPre' = NoPre
  /\ UNCHANGED <<fs, tmpFS, mangaMeta, dlConf, dlCalls>>
  /\ UNCHANGED <<batchVars, cacheVars, auxVars>>

NextDL ==
  \/ DLCall
  \/ DLStage
  \/ DLMerge
  \/ DLDone

\* ---- Client.SearchByManga on the cached provider

\* FindClosest(ctx, title, 3, 3)
SearchByMangaTries == 3

SearchByMangaStep == 3

\* provider.Info().Source of the metadata provider asked
ProviderSource == IDSourceAnilist

MangaUpdatesID(raw) == [IDCode |-> "mu", IDSource |-> IDSourceMangaUpdates, IDRaw |-> raw]

ProviderID(raw) == [IDCode |-> "src", IDSource |-> IDSourceProvider, IDRaw |-> raw]

\* The Manga handed to SearchByManga: one without metadata; one whose
\* metadata came from the content source, without an id of the provider's
\* source; one that carries such an id among the extra ids; one whose
\* metadata came from the provider itself, so that the id of the provider's
\* source is its ID and the extra ids are those of other sources
MangaPool ==
  { [nil |-> TRUE, ID |-> NoID, ExtraIDs |-> <<>>, Title |-> <<"s", "h", "o", "r", "t">>],
    [nil |-> FALSE, ID |-> ProviderID(<<"x">>), ExtraIDs |-> << MangaUpdatesID(<<"2">>) >>,
     Title |-> <<"s", "h", "o", "r", "t">>],
    [nil |-> FALSE, ID |-> ProviderID(<<"x">>),
     ExtraIDs |-> << MangaUpdatesID(<<"2">>), AnilistID(<<"1">>) >>,
     Title |-> <<"s", "h", "o", "r", "t">>],
    [nil |-> FALSE, ID |-> AnilistID(<<"1">>), ExtraIDs |-> << MangaUpdatesID(<<"2">>) >>,
     Title |-> <<"s", "h", "o", "r", "t">>] }

\* ID.Value
IDValue(id) == IF Atoi(id.IDRaw).ok THEN Atoi(id.IDRaw).val ELSE 0

\* the Manga's metadata carries an id of the given source
HasIDOf(manga, source) ==
  \/ manga.ID.IDSource = source
  \/ \E k \in 1..Len(manga.ExtraIDs) : manga.ExtraIDs[k].IDSource = source

\* SearchByManga, the loop over meta.ExtraIDs(): SearchByID for each id of
\* the provider's source; the first one found is returned, an error is
\* passed over; gave tells what the searches gave ("none" when none was made)
RECURSIVE TryExtraIDs(_, _, _, _)
TryExtraIDs(c, ids, byID, gave) ==
  IF ids = <<>> THEN [c |-> c, meta |-> NoMeta, found |-> FALSE, gave |-> gave]
  ELSE IF Head(ids).IDSource # ProviderSource THEN TryExtraIDs(c, Tail(ids), byID, gave)
  ELSE
    LET r == SearchByIDOp(c, IDValue(Head(ids)), byID[IDValue(Head(ids))])
    IN  IF r.err = NoErr /\ r.found
          THEN [c |-> r.c, meta |-> r.meta, found |-> TRUE, gave |-> "found"]
          ELSE TryExtraIDs(r.c, Tail(ids), byID,
                           IF r.err # NoErr THEN r.err.origin ELSE "nothing")

\* FindClosest up to the call of findClosest, in context c0: the
\* title-to-id entry, then the id-to-manga entry
TitleBinding(c0, title) ==
  LET c1 == Tick(c0)
      t  == Lookup(c1.mode, c1.t2i, title)
      c2 == Tick(c1)
      m  == IF t.found THEN Lookup(c2.mode, c2.i2m, Itoa(t.val))
            ELSE [found |-> FALSE, val |-> <<>>]
  IN  IF Fails(c1) THEN [c |-> c1, gave |-> "cache", meta |-> NoMeta]
      ELSE IF ~t.found THEN [c |-> c1, gave |-> "nothing", meta |-> NoMeta]
      ELSE IF Fails(c2) THEN [c |-> c2, gave |-> "cache", meta |-> NoMeta]
      ELSE IF m.found THEN [c |-> c2, gave |-> "found", meta |-> m.val]
      ELSE [c |-> c2, gave |-> "nothing", meta |-> NoMeta]

\* a nil pointer dereference
Panic == [type |-> "panic", origin |-> "nil metadata"]

\* Client.SearchByManga(ctx, provider, manga) up to the loop of findClosest
SearchByManga ==
  /\ MayStart
  /\ \E manga \in MangaPool, byID \in ByIDChoices, failAt \in 0..4 :
       LET f0 == [NoFC EXCEPT !.by = "SearchByManga", !.title = manga.Title,
                              !.orig = manga.Title, !.tries = SearchByMangaTries,
                              !.step = SearchByMangaStep,
                              !.hasID = HasIDOf(manga, ProviderSource)]
       IN  IF manga.nil
             THEN /\ Returned(FCRecord(f0, NoMeta, FALSE, Panic))
                  /\ UNCHANGED <<q2i, t2i, i2m, fcPc, fc, provEmpty>>
           ELSE
             \E a \in { TryExtraIDs(Ctx(cacheMode, q2i, t2i, i2m, failAt),
                                    manga.ExtraIDs, byID, "none") } :
             \E b \in { TitleBinding(a.c, manga.Title) } :
             \E f1 \in { [f0 EXCEPT !.idStep = a.gave, !.idcalls = a.c.idcalls] } :
               /\ provEmpty' = (provEmpty /\ AnswersEmpty(a.c, [err |-> FALSE, metas |-> <<>>], byID))
               /\ IF a.found
                    THEN /\ Returned(FCRecord(f1, a.meta, TRUE, NoErr))
                         /\ StoreOf(a.c)
                         /\ UNCHANGED <<fcPc, fc>>
                  ELSE IF b.gave = "cache"
                    THEN /\ Returned(FCRecord([f1 EXCEPT !.bind = "cache"], NoMeta, FALSE,
                                              WrapError("cache")))
                         /\ StoreOf(b.c)
                         /\ UNCHANGED <<fcPc, fc>>
                  ELSE IF b.gave = "found"
                    THEN /\ Returned(FCRecord([f1 EXCEPT !.bind = "found"], b.meta, TRUE, NoErr))
                         /\ StoreOf(b.c)
                         /\ UNCHANGED <<fcPc, fc>>
                  ELSE /\ fcPc' = "loop"
                       /\ fc' = [f1 EXCEPT !.bind = "nothing"]
                       /\ StoreOf(b.c)
                       /\ UNCHANGED <<last, prev>>
  /\ opCount' = opCount + 1
  /\ UNCHANGED cacheMode
  /\ UNCHANGED <<batchVars, dlVars, auxVars>>

NextResolve ==
  \/ SearchByManga
  \/ FCTry
  \/ BindTitleWithID

\* ------------------------------------------------------------------------
\* metadata.Validate on its own
\* ------------------------------------------------------------------------

\* no function is under evaluation
InitPure ==
  /\ pPc = "idle"
  /\ pIn = Nil
  /\ pOut = Nil

\* the IDs Validate is tried on: every source from the zero value to one
\* past the last defined, with and without a code, over raw values that
\* are empty, no number, zero, positive, negative and signed
IDsTried ==
  { [IDCode |-> c, IDSource |-> src, IDRaw |-> raw] :
      c \in {"", "al"},
      src \in 0..(IDSourceAnimePlanet + 1),
      raw \in { <<>>, <<"x">>, <<"0">>, <<"5">>, <<"-", "3">>, <<"+", "7">> } }

\* the records Validate is tried on: nil, every combination of empty
\* fields, every ID as the primary one and as an extra one
ValidateInputs ==
  { NilMeta } \cup
  { [nil |-> FALSE, String |-> str, Title |-> t, Authors |-> a, StartDate |-> d,
     Status |-> st, ID |-> AnilistID(<<"5">>), ExtraIDs |-> <<>>] :
      str \in {"", "Manga"}, t \in {"", "Manga"}, a \in 0..2, d \in {0, 2020},
      st \in {"", StatusReleasing} } \cup
  { [MetaFinished EXCEPT !.ID = id] : id \in IDsTried } \cup
  { [MetaFinished EXCEPT !.ExtraIDs = << AnilistID(<<"5">>), id >>] : id \in IDsTried }

ValidateStart ==
  /\ pPc = "Validate"
  /\ pIn \in ValidateInputs
  /\ pOut = Nil

\* err := metadata.Validate(m)
ValidateCall ==
  /\ pPc = "Validate"
  /\ pOut' = Validate(pIn)
  /\ pPc' = "validated"
  /\ UNCHANGED pIn
  /\ UNCHANGED <<authVars, storeVars, readVars, moreVars>>
  /\ UNCHANGED <<batchVars, cacheVars, dlVars>>

NextValidate == ValidateCall

\* ------------------------------------------------------------------------
\* findClosest: the shortening of the title between attempts
\* ------------------------------------------------------------------------

\* the titles and steps the loop is tried on: plain titles, titles with
\* blanks inside and around, the empty title; steps below, at and above zero
ShortenTitles ==
  { <<"s", "h", "o", "r", "t">>,
    <<"a", "b", " ", "c", "d", "e">>,
    <<"a", "b", "c", "d", " ">>,
    <<"a", " ", "b", "c">>,
    <<" ", " ">>,
    <<"a", "b">>,
    <<"s">>,
    <<>> }

ShortenSteps == {-1, 0, 1, 2, 3}

NoShorten == [searched |-> <<>>, next |-> <<>>, stop |-> FALSE, panic |-> FALSE]

\* findClosest is called and every attempt comes back without results
ShortenStart ==
  /\ pPc = "loop"
  /\ pIn \in { [title |-> t, step |-> st, i |-> 0, tries |-> MaxTries] :
                 t \in ShortenTitles, st \in ShortenSteps }
  /\ pOut = NoShorten

\* one pass of the loop of findClosest whose Search gave no results: the
\* loop test, the title searched, and the title made for the next pass
ShortenStep ==
  /\ pPc = "loop"
  /\ IF pIn.i >= pIn.tries
       THEN /\ pPc' = "exhausted"
            /\ UNCHANGED <<pIn, pOut>>
       ELSE LET sh == Shorten(pIn.title, pIn.step)
            IN  /\ pOut' = [searched |-> pIn.title, next |-> sh.title, stop |-> sh.stop,
                            panic |-> sh.panic]
                /\ pIn' = [pIn EXCEPT !.title = sh.title, !.i = @ + 1]
                /\ pPc' = IF sh.panic THEN "panicked"
                          ELSE IF sh.stop THEN "stopped" ELSE "loop"
  /\ UNCHANGED <<authVars, storeVars, readVars, moreVars>>
  /\ UNCHANGED <<batchVars, cacheVars, dlVars>>

NextShorten == ShortenStep

\* ------------------------------------------------------------------------
\* ProviderWithCache: the cached user
\* ------------------------------------------------------------------------

MaxAuthOps == 3

Usernames == {"ann", "bob"}

\* an error of the gokv store, not wrapped
StoreErr == [type |-> "gokv", origin |-> "cache"]

\* metadata.AuthError
AuthError(origin) == [type |-> "metadata.AuthError", origin |-> origin]

NoAuthRet ==
  [op |-> "none", name |-> Nil, ok |-> FALSE, err |-> NoErr, creds |-> FALSE,
   failed |-> 0, hadToken |-> FALSE, hadUser |-> FALSE]

InitAuth ==
  /\ tokenBucket = {}
  /\ userBucket = {}
  /\ provCreds = Nil
  /\ authRet = NoAuthRet
  /\ authOps = 0

\* what a call leaves: the two buckets, the user whose credentials the
\* wrapped provider was handed (Nil for none) and whether it took them,
\* the boolean and the error returned
AuthResult(tokens, users, creds, took, ok, err) ==
  [tokens |-> tokens, users |-> users, creds |-> creds, took |-> took, ok |-> ok,
   err |-> err]

\* a cached load that hands the cached token to the provider without
\* looking for the user record
CachedLoad_trusting(tokens, users, name, failAt, login, wrapped) ==
  IF failAt = 1 THEN AuthResult(tokens, users, Nil, FALSE, FALSE, AuthError("cache"))
  ELSE IF name \notin tokens THEN AuthResult(tokens, users, Nil, FALSE, FALSE, NoErr)
  ELSE IF ~login
    THEN AuthResult(tokens, users, name, FALSE, FALSE,
                    IF wrapped THEN AuthError("provider") ELSE ProviderErr)
  ELSE AuthResult(tokens, users, name, TRUE, TRUE, NoErr)

\* AuthorizeCachedUser (wrapped) and LoginWithCachedUser (not wrapped): the
\* failAt-th cache operation fails (0 for none), login tells whether the
\* provider takes the credentials, wrapped whether its error is wrapped
CachedLoad(tokens, users, name, failAt, login, wrapped) ==
  IF failAt = 1 THEN AuthResult(tokens, users, Nil, FALSE, FALSE, AuthError("cache"))
  ELSE IF name \notin tokens THEN AuthResult(tokens, users, Nil, FALSE, FALSE, NoErr)
  ELSE IF failAt = 2 THEN AuthResult(tokens, users, Nil, FALSE, FALSE, AuthError("cache"))
  ELSE IF name \notin users
    THEN IF failAt = 3 THEN AuthResult(tokens, users, Nil, FALSE, FALSE, AuthError("cache"))
         ELSE AuthResult(tokens \ {name}, users, Nil, FALSE, FALSE, NoErr)
  ELSE IF ~login
    THEN AuthResult(tokens, users, name, FALSE, FALSE,
                    IF wrapped THEN AuthError("provider") ELSE ProviderErr)
  ELSE AuthResult(tokens, users, name, TRUE, TRUE, NoErr)

\* the record of an authentication call and the state it leaves
AuthReturn(op, name, failAt, r) ==
  /\ tokenBucket' = r.tokens
  /\ userBucket' = r.users
  /\ provCreds' = IF r.took THEN r.creds ELSE provCreds
  /\ authRet' = [op |-> op, name |-> name, ok |-> r.ok, err |-> r.err,
                 creds |-> r.creds # Nil,
                 failed |-> IF r.err.origin = "cache" THEN failAt ELSE 0,
                 hadToken |-> name \in tokenBucket, hadUser |-> name \in userBucket]
  /\ authOps' = authOps + 1

\* ProviderWithCache.Login: the provider is authenticated, then the user
\* and the token are stored
Login ==
  /\ authOps < MaxAuthOps
  /\ \E name \in Usernames, login \in BOOLEAN, failAt \in 0..2 :
       AuthReturn("Login", name, failAt,
         IF ~login
           THEN AuthResult(tokenBucket, userBucket, name, FALSE, FALSE, AuthError("provider"))
         ELSE IF failAt = 1
           THEN AuthResult(tokenBucket, userBucket, name, TRUE, FALSE, AuthError("cache"))
         ELSE IF failAt = 2
           THEN AuthResult(tokenBucket, userBucket \cup {name}, name, TRUE, FALSE,
                           AuthError("cache"))
         ELSE AuthResult(tokenBucket \cup {name}, userBucket \cup {name}, name, TRUE, TRUE,
                         NoErr))
  /\ UNCHANGED <<storeVars, readVars, pureVars, moreVars>>
  /\ UNCHANGED <<batchVars, cacheVars, dlVars>>

\* ProviderWithCache.DeleteCachedUser: deleteUser, then deleteToken; the
\* error of the store is returned as it is
DeleteCachedUser ==
  /\ authOps < MaxAuthOps
  /\ \E name \in Usernames, failAt \in 0..2 :
       AuthReturn("DeleteCachedUser", name, failAt,
         IF failAt = 1
           THEN AuthResult(tokenBucket, userBucket, Nil, FALSE, FALSE, StoreErr)
         ELSE IF failAt = 2
           THEN AuthResult(tokenBucket, userBucket \ {name}, Nil, FALSE, FALSE,
                           StoreErr)
         ELSE AuthResult(tokenBucket \ {name}, userBucket \ {name}, Nil, FALSE, FALSE, NoErr))
  /\ UNCHANGED <<storeVars, readVars, pureVars, moreVars>>
  /\ UNCHANGED <<batchVars, cacheVars, dlVars>>

\* ProviderWithCache.AuthorizeCachedUser(username)
AuthorizeCachedUser ==
  /\ authOps < MaxAuthOps
  /\ \E name \in Usernames, login \in BOOLEAN, failAt \in 0..3 :
       AuthReturn("AuthorizeCachedUser", name, failAt,
                  CachedLoad(tokenBucket, userBucket, name, failAt, login, TRUE))
  /\ UNCHANGED <<storeVars, readVars, pureVars, moreVars>>
  /\ UNCHANGED <<batchVars, cacheVars, dlVars>>

\* ProviderWithCache.LoginWithCachedUser(ctx, username)
LoginWithCachedUser ==
  /\ authOps < MaxAuthOps
  /\ \E name \in Usernames, login \in BOOLEAN, failAt \in 0..3 :
       AuthReturn("LoginWithCachedUser", name, failAt,
                  CachedLoad(tokenBucket, userBucket, name, failAt, login, FALSE))
  /\ UNCHANGED <<storeVars, readVars, pureVars, moreVars>>
  /\ UNCHANGED <<batchVars, cacheVars, dlVars>>

NextAuth ==
  \/ Login
  \/ DeleteCachedUser
  \/ AuthorizeCachedUser
  \/ LoginWithCachedUser

\* ------------------------------------------------------------------------
\* store: the bucket handle shared by the methods of one ProviderWithCache
\* ------------------------------------------------------------------------

\* the goroutines that call cache methods of one wrapper at the same time
Goroutines == {"g1", "g2"}

CacheBucketNameQueryToIDs == "query-to-ids"

CacheBucketNameTitleToID == "title-to-id"

CacheBucketNameIDToManga == "id-to-manga"

Buckets == {CacheBucketNameQueryToIDs, CacheBucketNameTitleToID, CacheBucketNameIDToManga}

\* the handle no Get or Set has acted on yet
NoHit == [opener |-> Nil, bucket |-> Nil, closed |-> FALSE]

InitStore ==
  /\ sField = Nil
  /\ sPc = [g \in Goroutines |-> "idle"]
  /\ sWant = [g \in Goroutines |-> Nil]
  /\ sHit = [g \in Goroutines |-> NoHit]
  /\ sClosed = {}

\* a store method is entered: getQueryIDs or setQueryIDs, getTitleID or
\* setTitleID, getMeta or setMeta
StoreCall(g) ==
  /\ sPc[g] = "idle"
  /\ \E b \in Buckets : sWant' = [sWant EXCEPT ![g] = b]
  /\ sPc' = [sPc EXCEPT ![g] = "open"]
  /\ UNCHANGED <<sField, sHit, sClosed>>
  /\ UNCHANGED <<authVars, readVars, pureVars, moreVars>>
  /\ UNCHANGED <<batchVars, cacheVars, dlVars>>

\* s.open(bucket): the handle just opened is put into the shared field
StoreOpen(g) ==
  /\ sPc[g] = "open"
  /\ sField' = g
  /\ sPc' = [sPc EXCEPT ![g] = "access"]
  /\ UNCHANGED <<sWant, sHit, sClosed>>
  /\ UNCHANGED <<authVars, readVars, pureVars, moreVars>>
  /\ UNCHANGED <<batchVars, cacheVars, dlVars>>

\* s.store.Get or s.store.Set: it acts on the handle the field holds now
StoreAccess(g) ==
  /\ sPc[g] = "access"
  /\ sHit' = [sHit EXCEPT ![g] = [opener |-> sField, bucket |-> sWant[sField],
                                   closed |-> sField \in sClosed]]
  /\ sPc' = [sPc EXCEPT ![g] = "close"]
  /\ UNCHANGED <<sField, sWant, sClosed>>
  /\ UNCHANGED <<authVars, readVars, pureVars, moreVars>>
  /\ UNCHANGED <<batchVars, cacheVars, dlVars>>

\* the deferred s.Close(): it closes the handle the field holds now
StoreClose(g) ==
  /\ sPc[g] = "close"
  /\ sClosed' = sClosed \cup {sField}
  /\ sPc' = [sPc EXCEPT ![g] = "done"]
  /\ UNCHANGED <<sField, sWant, sHit>>
  /\ UNCHANGED <<authVars, readVars, pureVars, moreVars>>
  /\ UNCHANGED <<batchVars, cacheVars, dlVars>>

NextStore ==
  \/ \E g \in Goroutines : StoreCall(g)
  \/ \E g \in Goroutines : StoreOpen(g)
  \/ \E g \in Goroutines : StoreAccess(g)
  \/ \E g \in Goroutines : StoreClose(g)

\* ------------------------------------------------------------------------
\* Client.ReadChapter
\* ------------------------------------------------------------------------

IDCodeAnilist == "al"

IDCodeMyAnimeList == "mal"

\* chapter numbers in tenths: 0.0, 1.5, 12.9 and 100.0
ChapterNumbers == {0, 15, 129, 1000}

\* math.Trunc of a number given in tenths
Trunc(tenths) ==
  IF tenths >= 0 THEN tenths \div 10 ELSE 0 - ((0 - tenths) \div 10)

ReadOptionsPool == [SaveHistory : BOOLEAN, SaveAnilist : BOOLEAN, SaveMyAnimeList : BOOLEAN]

\* what FindClosest of a metadata provider gives for the manga's title
ClosestKinds == {"found", "nothing", "error"}

NoRead ==
  [called |-> FALSE, opt |-> [SaveHistory |-> FALSE, SaveAnilist |-> FALSE,
                              SaveMyAnimeList |-> FALSE],
   number |-> 0, meta |-> {}, closest |-> <<>>, set |-> FALSE, opened |-> FALSE,
   progress |-> <<>>, err |-> Nil]

InitRead == rd = NoRead

\* the providers of c.meta whose SetMangaProgress the loop calls
ProgressAsked(opt, meta, closest) ==
  { id \in meta : closest[id] = "found" /\ id = IDCodeAnilist /\ opt.SaveAnilist }

\* if !options.SaveAnilist || !options.SaveHistory { return nil }
ReadsOn(opt) == ~(~opt.SaveAnilist \/ ~opt.SaveHistory)

\* Client.ReadChapter: meta are the ids of c.meta, closest what FindClosest
\* of each gives, run whether open.Run succeeds, set whether
\* SetMangaProgress does
ReadChapter ==
  /\ ~rd.called
  /\ \E opt \in ReadOptionsPool, number \in ChapterNumbers,
        meta \in SUBSET {IDCodeAnilist, IDCodeMyAnimeList},
        run \in BOOLEAN, set \in BOOLEAN :
     \E closest \in [meta -> ClosestKinds] :
       LET asked  == ProgressAsked(opt, meta, closest)
           failed == { id \in meta : closest[id] # "found" } \cup
                     (IF set THEN {} ELSE asked)
           call   == [NoRead EXCEPT !.called = TRUE, !.opt = opt, !.number = number,
                                    !.meta = meta, !.closest = closest, !.set = set]
       IN  rd' =
             IF ~run THEN [call EXCEPT !.err = "open failed"]
             ELSE IF ~ReadsOn(opt) THEN [call EXCEPT !.opened = TRUE]
             ELSE IF meta = {}
               THEN [call EXCEPT !.opened = TRUE, !.err = "no metadata Providers available"]
             ELSE [call EXCEPT !.opened = TRUE,
                               !.progress = [id \in IF set THEN asked ELSE {} |-> Trunc(number)],
                               !.err = IF failed = {} THEN Nil ELSE "set progress errors"]
  /\ UNCHANGED <<authVars, storeVars, pureVars, moreVars>>
  /\ UNCHANGED <<batchVars, cacheVars, dlVars>>

\* the caller takes the result
ReadDone ==
  /\ rd.called
  /\ rd' = NoRead
  /\ UNCHANGED <<authVars, storeVars, pureVars, moreVars>>
  /\ UNCHANGED <<batchVars, cacheVars, dlVars>>

NextRead == ReadChapter \/ ReadDone

\* ---------------------------------------------------------------------
\* The Anilist client: the token and the user it holds, and its store

NoAnilistRet ==
  [op |-> "none", name |-> Nil, ok |-> FALSE, err |-> NoErr, failed |-> 0,
   before |-> Nil]

\* anilist.Error
AnilistError(origin) == [type |-> "anilist.Error", origin |-> origin]

InitAnilist ==
  /\ alTokens = {}
  /\ alUsers = {}
  /\ alAuthData = Nil
  /\ alUser = Nil
  /\ alRet = NoAnilistRet
  /\ alOps = 0

\* Anilist.Authenticated: an access token is held
Authenticated(authData) == authData # Nil

\* what a call leaves: the two buckets, the token and the user the client
\* holds, the boolean and the error returned
AnilistResult(tokens, users, authData, user, ok, err) ==
  [tokens |-> tokens, users |-> users, authData |-> authData, user |-> user,
   ok |-> ok, err |-> err]

\* the record of an Anilist call and the state it leaves
AnilistReturn(op, name, failAt, r) ==
  /\ alTokens' = r.tokens
  /\ alUsers' = r.users
  /\ alAuthData' = r.authData
  /\ alUser' = r.user
  /\ alRet' = [op |-> op, name |-> name, ok |-> r.ok, err |-> r.err,
               failed |-> IF r.err.origin = "cache" THEN failAt ELSE 0,
               before |-> alAuthData]
  /\ alOps' = alOps + 1

\* Anilist.AuthorizeWithAccessToken: the token is held, the user it
\* belongs to is asked of the service (valid tells whether that succeeds),
\* then the user and the token are stored
AuthorizeWithAccessToken ==
  /\ alOps < MaxAuthOps
  /\ \E name \in Usernames, valid \in BOOLEAN, failAt \in 0..2 :
       AnilistReturn("AuthorizeWithAccessToken", name, failAt,
         IF ~valid
           THEN AnilistResult(alTokens, alUsers, name, alUser, FALSE,
                              AnilistError("service"))
         ELSE IF failAt = 1
           THEN AnilistResult(alTokens, alUsers, name, name, FALSE, AnilistError("cache"))
         ELSE IF failAt = 2
           THEN AnilistResult(alTokens, alUsers \cup {name}, name, name, FALSE,
                              AnilistError("cache"))
         ELSE AnilistResult(alTokens \cup {name}, alUsers \cup {name}, name, name, TRUE,
                            NoErr))
  /\ UNCHANGED <<authVars, storeVars, readVars, pureVars, raceVars>>
  /\ UNCHANGED <<batchVars, cacheVars, dlVars>>

\* Anilist.Logout: an error when no token is held; the name of a user
\* that is nil cannot be read
Logout ==
  /\ alOps < MaxAuthOps
  /\ AnilistReturn("Logout", Nil, 0,
       IF ~Authenticated(alAuthData)
         THEN AnilistResult(alTokens, alUsers, alAuthData, alUser, FALSE,
                            AnilistError("logout"))
       ELSE IF alUser = Nil
         THEN AnilistResult(alTokens, alUsers, alAuthData, alUser, FALSE, Panic)
       ELSE AnilistResult(alTokens, alUsers, Nil, Nil, TRUE, NoErr))
  /\ UNCHANGED <<authVars, storeVars, readVars, pureVars, raceVars>>
  /\ UNCHANGED <<batchVars, cacheVars, dlVars>>

\* Anilist.DeleteCachedUser: deleteUser, then deleteAuthData
AnilistDeleteCachedUser ==
  /\ alOps < MaxAuthOps
  /\ \E name \in Usernames, failAt \in 0..2 :
       AnilistReturn("DeleteCachedUser", name, failAt,
         IF failAt = 1
           THEN AnilistResult(alTokens, alUsers, alAuthData, alUser, FALSE, StoreErr)
         ELSE IF failAt = 2
           THEN AnilistResult(alTokens, alUsers \ {name}, alAuthData, alUser, FALSE,
                              StoreErr)
         ELSE AnilistResult(alTokens \ {name}, alUsers \ {name}, alAuthData, alUser,
                            TRUE, NoErr))
  /\ UNCHANGED <<authVars, storeVars, readVars, pureVars, raceVars>>
  /\ UNCHANGED <<batchVars, cacheVars, dlVars>>

\* Anilist.AuthorizeCachedUser(username): the failAt-th store operation
\* fails (0 for none): getAuthData, getUser, deleteAuthData.  The token
\* read is held from the moment it is found
AnilistCachedLoad(tokens, users, authData, user, name, failAt) ==
  IF failAt = 1
    THEN AnilistResult(tokens, users, authData, user, FALSE, AnilistError("cache"))
  ELSE IF name \notin tokens
    THEN AnilistResult(tokens, users, authData, user, FALSE, NoErr)
  ELSE IF failAt = 2
    THEN AnilistResult(tokens, users, name, user, FALSE, AnilistError("cache"))
  ELSE IF name \notin users
    THEN IF failAt = 3
           THEN AnilistResult(tokens, users, Nil, user, FALSE, AnilistError("cache"))
         ELSE AnilistResult(tokens \ {name}, users, Nil, user, FALSE, NoErr)
  ELSE AnilistResult(tokens, users, name, name, TRUE, NoErr)

AnilistAuthorizeCachedUser ==
  /\ alOps < MaxAuthOps
  /\ \E name \in Usernames, failAt \in 0..3 :
       AnilistReturn("AuthorizeCachedUser", name, failAt,
         AnilistCachedLoad(alTokens, alUsers, alAuthData, alUser, name, failAt))
  /\ UNCHANGED <<authVars, storeVars, readVars, pureVars, raceVars>>
  /\ UNCHANGED <<batchVars, cacheVars, dlVars>>

NextAnilist ==
  \/ AuthorizeWithAccessToken
  \/ Logout
  \/ AnilistDeleteCachedUser
  \/ AnilistAuthorizeCachedUser

\* ---------------------------------------------------------------------
\* DownloadChapter called from two goroutines of one client for the same
\* chapter: each call stages into a filesystem of its own, asks the
\* destination whether the chapter exists, and merges when it is done.
\* Nothing orders the steps of one call against those of the other

Calls == {"a", "b"}

InitRace ==
  /\ ccPc = [g \in Calls |-> "idle"]
  /\ ccSkip = [g \in Calls |-> FALSE]
  /\ ccSaw = [g \in Calls |-> FALSE]
  /\ ccStaged = [g \in Calls |-> FALSE]
  /\ ccFetched = [g \in Calls |-> FALSE]
  /\ ccStatus = [g \in Calls |-> Nil]
  /\ ccDest = Nil

\* Client.DownloadChapter is entered: a staging filesystem is made
RaceCall(g) ==
  /\ ccPc[g] = "idle"
  /\ \E skip \in BOOLEAN : ccSkip' = [ccSkip EXCEPT ![g] = skip]
  /\ ccPc' = [ccPc EXCEPT ![g] = "exists"]
  /\ UNCHANGED <<ccSaw, ccStaged, ccFetched, ccStatus, ccDest>>
  /\ UNCHANGED <<authVars, storeVars, readVars, pureVars, anilistVars>>
  /\ UNCHANGED <<batchVars, cacheVars, dlVars>>

\* existsFunc(chapterPath): asked of the destination
RaceExists(g) ==
  /\ ccPc[g] = "exists"
  /\ ccSaw' = [ccSaw EXCEPT ![g] = ccDest # Nil]
  /\ ccPc' = [ccPc EXCEPT ![g] = "body"]
  /\ UNCHANGED <<ccSkip, ccStaged, ccFetched, ccStatus, ccDest>>
  /\ UNCHANGED <<authVars, storeVars, readVars, pureVars, anilistVars>>
  /\ UNCHANGED <<batchVars, cacheVars, dlVars>>

\* downloadChapterWithMetadata after the existence test: the pages are
\* fetched and the chapter is written to the staging filesystem unless the
\* chapter was seen and is to be skipped; a failing fetch ends the call
RaceBody(g) ==
  /\ ccPc[g] = "body"
  /\ IF NeedsBody(ccSaw[g], ccSkip[g])
       THEN /\ ccFetched' = [ccFetched EXCEPT ![g] = TRUE]
            /\ \E ok \in BOOLEAN :
                 IF ok
                   THEN /\ ccStaged' = [ccStaged EXCEPT ![g] = TRUE]
                        /\ ccStatus' = [ccStatus EXCEPT ![g] = ChapterStatusWritten(ccSkip[g])]
                        /\ ccPc' = [ccPc EXCEPT ![g] = "merge"]
                   ELSE /\ ccPc' = [ccPc EXCEPT ![g] = "failed"]
                        /\ UNCHANGED <<ccStaged, ccStatus>>
       ELSE /\ ccStatus' = [ccStatus EXCEPT ![g] = DownloadStatusExists]
            /\ ccPc' = [ccPc EXCEPT ![g] = "merge"]
            /\ UNCHANGED <<ccStaged, ccFetched>>
  /\ UNCHANGED <<ccSkip, ccSaw, ccDest>>
  /\ UNCHANGED <<authVars, storeVars, readVars, pureVars, anilistVars>>
  /\ UNCHANGED <<batchVars, cacheVars, dlVars>>

\* mergeDirectories: what the call staged replaces what the destination has
RaceMerge(g) ==
  /\ ccPc[g] = "merge"
  /\ ccDest' = IF ccStaged[g] THEN g ELSE ccDest
  /\ ccPc' = [ccPc EXCEPT ![g] = "returned"]
  /\ UNCHANGED <<ccSkip, ccSaw, ccStaged, ccFetched, ccStatus>>
  /\ UNCHANGED <<authVars, storeVars, readVars, pureVars, anilistVars>>
  /\ UNCHANGED <<batchVars, cacheVars, dlVars>>

NextRace == \E g \in Calls : RaceCall(g) \/ RaceExists(g) \/ RaceBody(g) \/ RaceMerge(g)

\* nothing outside the download pipeline, the page fetcher and the
\* metadata cache is running
AuxQuiet == InitAuth /\ InitStore /\ InitRead /\ InitPure /\ InitAnilist /\ InitRace

\* DownloadChapter called again and again for one chapter
DLStart == InitDL /\ InitBatch /\ InitCache /\ AuxQuiet

SpecDL == DLStart /\ [][NextDL]_vars

\* the page fetcher alone
BatchStart == InitBatch /\ InitCache /\ DLQuiet /\ AuxQuiet

SpecBatch == BatchStart /\ [][NextBatch]_vars

\* the cached provider alone, its cache empty
CacheStart == InitCache /\ InitBatch /\ DLQuiet /\ AuxQuiet

SpecCache == CacheStart /\ [][NextCache]_vars

\* the cached provider with the default cache store
DefaultStoreStart == InitCacheDefault /\ InitBatch /\ DLQuiet /\ AuxQuiet

SpecDefaultStore == DefaultStoreStart /\ [][NextCache]_vars

\* the Anilist client and its store, nothing else running
AnilistStart == InitAnilist /\ InitAuth /\ InitStore /\ InitRead /\ InitPure /\ InitRace /\ InitBatch /\ InitCache /\ DLQuiet

SpecAnilist == AnilistStart /\ [][NextAnilist]_vars

\* two DownloadChapter calls of one client, nothing else running
RaceStart == InitRace /\ InitAuth /\ InitStore /\ InitRead /\ InitPure /\ InitAnilist /\ InitBatch /\ InitCache /\ DLQuiet

SpecRace == RaceStart /\ [][NextRace]_vars

\* One FindClosest on an empty or a warm cache; a goroutine that runs
\* findClosest is scheduled until it returns.
FindClosestStart == (InitCache \/ InitCacheWarm) /\ InitBatch /\ DLQuiet /\ AuxQuiet

SpecFindClosest ==
  /\ FindClosestStart
  /\ [][NextFindClosest]_vars
  /\ WF_vars(FCTry)

\* SearchByManga calls on a provider whose cache is empty or warm, and
\* titles bound in between
ResolveStart == (InitCache \/ InitCacheWarm) /\ InitBatch /\ DLQuiet /\ AuxQuiet

SpecResolve == ResolveStart /\ [][NextResolve]_vars

\* the loop of findClosest on a provider that finds nothing
ShortenAlone ==
  ShortenStart /\ InitAuth /\ InitStore /\ InitRead /\ InitAnilist /\ InitRace /\ InitBatch /\ InitCache /\ DLQuiet

SpecShorten == ShortenAlone /\ [][NextShorten]_vars

\* authentication calls on one cached provider, one after the other
AuthStart == AuxQuiet /\ InitBatch /\ InitCache /\ DLQuiet

SpecAuth == AuthStart /\ [][NextAuth]_vars

\* cache methods of one wrapper called from two goroutines
StoreStart == AuxQuiet /\ InitBatch /\ InitCache /\ DLQuiet

SpecStore == StoreStart /\ [][NextStore]_vars

\* ReadChapter calls
ReadStart == AuxQuiet /\ InitBatch /\ InitCache /\ DLQuiet

SpecRead == ReadStart /\ [][NextRead]_vars

\* metadata.Validate applied to one record
ValidateAlone ==
  ValidateStart /\ InitAuth /\ InitStore /\ InitRead /\ InitAnilist /\ InitRace /\ InitBatch /\ InitCache /\ DLQuiet

SpecValidate == ValidateAlone /\ [][NextValidate]_vars

\* C3: once a fetch of the batch has failed, DownloadPagesInBatch returns a
\* nil page sequence and a non-nil error; whatever it returns without an
\* error has every slot filled.
C3_FailFast ==
  bPc \in {"returned", "saved"} =>
    /\ bFailed # {} => (bRet.isNil /\ bRet.pages = <<>> /\ bRet.err # Nil)
    /\ ~bRet.isNil => \A k \in 1..Len(bRet.pages) : bRet.pages[k] # NilPage

\* a batch of three pages returned after one fetch failed while another
\* page had already been stored in the slice
C3_Witness ==
  /\ bPc = "returned"
  /\ Len(bIn) = 3
  /\ bFailed # {}
  /\ \E k \in 1..Len(downloadedPages) : downloadedPages[k] # NilPage
  /\ \E k \in 1..Len(downloadedPages) : downloadedPages[k] = NilPage

\* C4: a successful DownloadPagesInBatch returns one page per input page,
\* slot i holding input page i with its image, in whatever order the fetches
\* completed; entry k of the archive written from it is named by the 4-digit
\* number k and the extension of input page k and holds that page's image.
C4_Ordering ==
  /\ (bPc \in {"returned", "saved"} /\ bRet.err = Nil) =>
        /\ Len(bRet.pages) = Len(bIn)
        /\ \A k \in 1..Len(bIn) :
              /\ bRet.pages[k].url = bIn[k].url
              /\ bRet.pages[k].ext = bIn[k].ext
              /\ bRet.pages[k].img = ImageOf(bIn[k])
  /\ bPc = "saved" =>
        /\ Len(bArchive) = Len(bIn)
        /\ \A k \in 1..Len(bIn) :
              /\ Len(bArchive[k].name.num) = 4
              /\ DigitsValue(bArchive[k].name.num) = k
              /\ bArchive[k].name.ext = bIn[k].ext
              /\ bArchive[k].data = ImageOf(bIn[k])

\* an archive of three different pages whose fetches completed in the
\* reverse of the input order
C4_Witness ==
  /\ bPc = "saved"
  /\ Len(bIn) = 3
  /\ bOrder = <<3, 2, 1>>
  /\ bIn[1] # bIn[2] /\ bIn[2] # bIn[3] /\ bIn[1] # bIn[3]

C7_Bound ==
  /\ fcPc = "loop" => (fc.i <= fc.tries /\ fc.pcalls <= fc.i)
  /\ last.op = "FindClosest" =>
       /\ last.pcalls <= last.tries
       /\ provEmpty => (~last.found /\ (last.err = NoErr \/ last.err.origin = "cache"))

\* every pass through the loop of findClosest counts one more try
C7_Variant ==
  (fcPc = "loop" /\ fcPc' = "loop") => (fc'.i = fc.i + 1 /\ fc'.tries = fc.tries)

\* C7: FindClosest terminates: a call in its loop returns, each pass of the
\* loop counts one try and the loop is left after at most tries passes, so
\* the provider gets at most tries Search calls; when the provider never
\* returns a result the outcome is found=false without an error.
C7_FindClosestTerminates ==
  /\ []C7_Bound
  /\ [][C7_Variant]_vars
  /\ (fcPc = "loop") ~> (fcPc = "idle")

\* FindClosest("short", 3, 3) returned found=false after three Search calls
\* that the provider answered with no result
C7_Witness ==
  /\ last.op = "FindClosest"
  /\ last.key = <<"s", "h", "o", "r", "t">> /\ last.tries = 3 /\ last.step = 3
  /\ provEmpty /\ last.pcalls = 3 /\ ~last.found /\ last.err = NoErr

\* the chapter path was in the destination when the call began
ChapterExisted == Exists(dlPre.fs, ChapterPath(dlOpt))

\* DownloadChapter has returned without an error
DLSucceeded == dlPc = "returned" /\ dlRet.err = Nil

\* DownloadChapter has ended with an error or in a panic
DLFailed == (dlPc = "returned" /\ dlRet.err # Nil) \/ dlPc = "panicked"

\* C1: when DownloadChapter fails at a step before the merge (metadata
\* search, validation, page listing or fetch, cancellation, image transform,
\* chapter body write, a sidecar step), the destination filesystem is
\* exactly what it was when the call began.
C1_FailureBeforeMerge ==
  (DLFailed /\ dlRet.raised # "merge") => fs = dlPre.fs

\* a call on a destination that already holds a download, aborted under
\* Strict by a sidecar write after the body was staged
C1_Witness ==
  /\ dlPc = "returned"
  /\ dlRet.raised = "sidecar write"
  /\ dlOpt.Strict
  /\ Exists(stage, ChapterPath(dlOpt))
  /\ dlPre.fs # NewMemMapFs
  /\ fs = dlPre.fs

\* C2 as stated: whenever DownloadChapter returns an error, the merge
\* included, the destination filesystem is what it was when the call began.
C2_AnyErrorUntouched ==
  (dlPc = "returned" /\ dlRet.err # Nil) => fs = dlPre.fs

\* C8: a call with SkipIfExists that finds the chapter path in the
\* destination, as a call that succeeded leaves it, lists and fetches no
\* page, leaves the chapter body in the destination as it was and, when it
\* succeeds, reports ChapterStatus Exists.
C8_SkipIfExists ==
  /\ DLSucceeded => Exists(fs, ChapterPath(dlOpt))
  /\ (dlOpt.SkipIfExists /\ ChapterExisted) =>
       /\ ~dlRet.asked
       /\ dlRet.batch = 0
       /\ Subtree(fs, ChapterPath(dlOpt)) = Subtree(dlPre.fs, ChapterPath(dlOpt))
       /\ DLSucceeded => dlRet.chap.ChapterStatus = DownloadStatusExists

\* the second call, made with SkipIfExists on what the first call left
C8_Witness ==
  /\ dlCalls = 2
  /\ DLSucceeded
  /\ dlOpt.SkipIfExists
  /\ ChapterExisted
  /\ dlRet.chap.ChapterStatus = DownloadStatusExists
  /\ fs # dlPre.fs

\* C9 as stated: ChapterStatus of a successful call is Exists when the
\* chapter path existed and SkipIfExists is set, Overwritten when it existed
\* and SkipIfExists is not set, New when it did not exist.
C9_ChapterStatus ==
  DLSucceeded =>
    dlRet.chap.ChapterStatus =
      IF ChapterExisted /\ dlOpt.SkipIfExists THEN DownloadStatusExists
      ELSE IF ChapterExisted THEN DownloadStatusOverwritten
      ELSE DownloadStatusNew

\* one step of a call: the caller-visible filesystem changes in the merge
\* only; the staging filesystem is empty when the call begins; what the
\* call reports as written is in the staging filesystem before the merge;
\* the merge changes a path only into what is staged for it
C10_Step ==
  /\ fs' # fs => dlPc = "merging"
  /\ (dlPc = "idle" /\ dlPc' = "staging") => stage' = NewMemMapFs
  /\ (dlPc = "staging" /\ dlPc' = "merging") =>
       /\ dlRet'.chap.ChapterStatus # DownloadStatusExists =>
            Exists(stage', ChapterPath(dlOpt))
       /\ \A f \in Sidecars :
            dlRet'.chap[f] \in {DownloadStatusNew, DownloadStatusFailed} =>
              Exists(stage', SidecarPath(dlOpt, f))
  /\ dlPc = "merging" =>
       \A p \in DOMAIN fs' :
         (p \notin DOMAIN fs \/ fs'[p] # fs[p]) => (p \in DOMAIN stage /\ fs'[p] = stage[p])

\* C10: during a DownloadChapter call every write goes to a staging
\* filesystem that is fresh for the call; the caller-visible filesystem is
\* read only, and is written by the merge alone.
C10_StagingOnly == [][C10_Step]_vars

\* a call about to merge: body and a sidecar are staged, the destination
\* is still as the call found it
C10_Witness ==
  /\ dlPc = "merging"
  /\ Exists(stage, ChapterPath(dlOpt))
  /\ \E f \in Sidecars : Exists(stage, SidecarPath(dlOpt, f))
  /\ ~Exists(fs, ChapterPath(dlOpt))
  /\ fs = dlPre.fs
  /\ fs # NewMemMapFs

\* C11: with Strict, a call whose Manga carries metadata that fails
\* validation once the metadata step is over returns an error, has listed
\* and fetched no page and has written nothing, to the staging filesystem
\* or to the destination.
C11_StrictInvalid ==
  (dlPc \notin {"idle", "panicked"} /\ dlOpt.Strict /\ Validate(mangaMeta) # Nil) =>
    /\ dlPc = "returned"
    /\ dlRet.err # Nil
    /\ ~dlRet.asked
    /\ dlRet.batch = 0
    /\ stage = NewMemMapFs
    /\ fs = dlPre.fs

\* a Strict call on an earlier download whose search replaced valid
\* metadata by metadata that fails validation
C11_Witness ==
  /\ dlPc = "returned"
  /\ dlRet.raised = "validate"
  /\ dlOpt.Strict
  /\ dlOpt.SearchMetadata
  /\ Validate(dlPre.meta) = Nil
  /\ Validate(mangaMeta) # Nil
  /\ dlPre.fs # NewMemMapFs

\* C12: without Strict, metadata that fails validation never stops the call
\* at the validation; a call that succeeds has staged and merged the chapter
\* body when the chapter was to be downloaded, reports Skip or
\* MissingMetadata for series.json, cover and banner, and has written none
\* of the three files.
C12_Degraded ==
  /\ (dlPc = "returned" /\ ~dlOpt.Strict) => dlRet.raised # "validate"
  /\ (DLSucceeded /\ ~dlOpt.Strict /\ Validate(mangaMeta) # Nil) =>
       /\ NeedsBody(ChapterExisted, dlOpt.SkipIfExists) =>
            /\ dlRet.asked
            /\ Exists(stage, ChapterPath(dlOpt))
            /\ Exists(fs, ChapterPath(dlOpt))
       /\ \A f \in Sidecars :
            /\ dlRet.chap[f] \in {DownloadStatusSkip, DownloadStatusMissingMetadata}
            /\ ~Exists(stage, SidecarPath(dlOpt, f))
            /\ Exists(fs, SidecarPath(dlOpt, f)) =>
                 /\ Exists(dlPre.fs, SidecarPath(dlOpt, f))
                 /\ fs[SidecarPath(dlOpt, f)] = dlPre.fs[SidecarPath(dlOpt, f)]

\* a call without Strict that asked for series.json and a cover, made for
\* a Manga whose metadata fails validation: the body is in the destination
C12_Witness ==
  /\ DLSucceeded
  /\ ~dlOpt.Strict
  /\ Validate(mangaMeta) # Nil
  /\ dlOpt.WriteSeriesJSON /\ dlOpt.DownloadMangaCover
  /\ dlRet.asked
  /\ Exists(fs, ChapterPath(dlOpt))
  /\ ~Exists(dlPre.fs, ChapterPath(dlOpt))
  /\ dlRet.chap.SeriesJSONStatus = DownloadStatusMissingMetadata

\* C13 as stated: without Strict no error met while a sidecar is produced
\* makes the call return an error; with Strict no call that succeeds
\* reports a Failed sidecar.
C13_SidecarErrors ==
  /\ (dlPc = "returned" /\ ~dlOpt.Strict) =>
       dlRet.raised \notin {"sidecar exists", "sidecar create", "sidecar write"}
  /\ (DLSucceeded /\ dlOpt.Strict) =>
       \A f \in Sidecars : dlRet.chap[f] # DownloadStatusFailed

\* C14: once the metadata step is over, a call made with SearchMetadata
\* whose search returned carries the search result as the Manga's metadata,
\* nil when nothing was found; a call made without SearchMetadata carries
\* the metadata the Manga had when the call began.
C14_SearchReplaces ==
  dlPc # "idle" =>
    /\ dlPre.search.kind = "result" => mangaMeta = dlPre.search.meta
    /\ ~dlOpt.SearchMetadata => mangaMeta = dlPre.meta

\* a search that found nothing has replaced valid metadata by nil
C14_Witness ==
  /\ dlPc = "returned"
  /\ dlOpt.SearchMetadata
  /\ dlPre.search.kind = "result"
  /\ dlPre.search.meta.nil
  /\ ~dlPre.meta.nil
  /\ mangaMeta.nil

\* C15 as stated: an error the provider returns while SearchByManga
\* resolves metadata, in the search by id or in the title search, is
\* returned: no call goes on to the title search after a search by id that
\* the provider answered with an error, and none that met such an error
\* returns without one.
C15_ProviderErrorsFatal ==
  /\ (fcPc = "loop" /\ fc.by = "SearchByManga") => fc.idStep # "provider"
  /\ (last.op = "SearchByManga" /\ last.idStep = "provider") => last.err # NoErr

\* C16 as stated: SearchByManga searches by the id of the provider's source
\* whenever the Manga's metadata carries one, looks the title binding up
\* only when that search found nothing, and runs the fuzzy title search
\* only when both found nothing.
C16_ResolutionOrder ==
  (last.op = "SearchByManga" /\ last.err # Panic) =>
    /\ last.hasID => last.idStep # "none"
    /\ last.idStep = "found" => (last.bind = "none" /\ last.attempts = 0)
    /\ last.bind # "none" => last.idStep \in {"none", "nothing"}
    /\ last.attempts > 0 => last.bind = "nothing"

\* C17 as stated: once BindTitleWithID(T, id) has returned without error, a
\* FindClosest(T) never enters the closest-match loop, and the next one that
\* returns without error returns the metadata of id without a Search call.
C17_BindBypasses ==
  /\ (last.op = "BindTitleWithID" /\ last.err = NoErr /\ fcPc = "loop") =>
       fc.orig # last.key
  /\ (/\ prev.op = "BindTitleWithID" /\ prev.err = NoErr
      /\ last.op = "FindClosest" /\ last.key = prev.key /\ last.err = NoErr) =>
       /\ last.attempts = 0
       /\ last.found
       /\ Atoi(last.metas[1].raw).val = prev.id

C19_FirstResult ==
  /\ fcPc = "loop" => fc.seen = <<>>
  /\ (last.op = "FindClosest" /\ last.seen # <<>> /\ last.err = NoErr) =>
       (last.found /\ last.metas = <<last.seen[1]>>)
  /\ (last.op = "FindClosest" /\ last.found /\ last.attempts > 0) =>
       (last.seen # <<>> /\ last.metas = <<last.seen[1]>>)

\* the second attempt returned two results and the first of them was taken
C19_Witness ==
  /\ last.op = "FindClosest" /\ last.found
  /\ last.attempts = 2
  /\ Len(last.seen) = 2
  /\ last.metas = <<last.seen[1]>>
  /\ last.seen[2] # last.seen[1]

\* C20 as stated: an error that SearchByID, Search or FindClosest return
\* for a failure of the wrapped provider differs in its type from the
\* error they return for a failure of the cache.
C20_CacheErrorsDistinct ==
  (last.op \in {"SearchByID", "Search", "FindClosest"} /\ last.err.origin = "provider") =>
    last.err.type # WrapError("cache").type

\* the option flag of a sidecar
FlagSet(opt, f) ==
  \/ f = "SeriesJSONStatus" /\ opt.WriteSeriesJSON
  \/ f = "CoverStatus" /\ opt.DownloadMangaCover
  \/ f = "BannerStatus" /\ opt.DownloadMangaBanner

\* the sidecar is in the destination with the bytes it had before the call
Untouched(f) ==
  Exists(dlPre.fs, SidecarPath(dlOpt, f)) =>
    /\ Exists(fs, SidecarPath(dlOpt, f))
    /\ fs[SidecarPath(dlOpt, f)] = dlPre.fs[SidecarPath(dlOpt, f)]

\* C24 as stated: a call that succeeds with SkipSeriesJSONIfOngoing set for
\* a Manga whose metadata has status Releasing reports SeriesJSONStatus
\* Skip and has staged no series.json, whatever WriteSeriesJSON is.
C24_SkipOngoing ==
  (DLSucceeded /\ dlOpt.SkipSeriesJSONIfOngoing /\ mangaMeta.Status = StatusReleasing) =>
    /\ dlRet.chap.SeriesJSONStatus = DownloadStatusSkip
    /\ ~Exists(stage, SidecarPath(dlOpt, "SeriesJSONStatus"))

\* C24, amended: the same for metadata that passes validation; for
\* Releasing metadata that fails validation no series.json is staged
\* either and the status is MissingMetadata.
C24_SkipOngoingValid ==
  (DLSucceeded /\ dlOpt.SkipSeriesJSONIfOngoing /\ mangaMeta.Status = StatusReleasing) =>
    /\ dlRet.chap.SeriesJSONStatus =
         IF Validate(mangaMeta) = Nil THEN DownloadStatusSkip
         ELSE DownloadStatusMissingMetadata
    /\ ~Exists(stage, SidecarPath(dlOpt, "SeriesJSONStatus"))
    /\ Untouched("SeriesJSONStatus")
    /\ ~Exists(dlPre.fs, SidecarPath(dlOpt, "SeriesJSONStatus")) =>
         ~Exists(fs, SidecarPath(dlOpt, "SeriesJSONStatus"))

\* WriteSeriesJSON and SkipSeriesJSONIfOngoing are both set, the series is
\* ongoing: the cover is written, series.json is not
C24_Witness ==
  /\ DLSucceeded
  /\ dlOpt.WriteSeriesJSON /\ dlOpt.SkipSeriesJSONIfOngoing
  /\ mangaMeta.Status = StatusReleasing /\ Validate(mangaMeta) = Nil
  /\ dlRet.chap.SeriesJSONStatus = DownloadStatusSkip
  /\ dlRet.chap.CoverStatus = DownloadStatusNew
  /\ ~Exists(fs, SidecarPath(dlOpt, "SeriesJSONStatus"))

\* C25 as stated: a sidecar that was in the destination when the call
\* began keeps its bytes, and a call that succeeds with the sidecar's flag
\* set reports it as Exists.
C25_ExistingSidecar ==
  \A f \in Sidecars :
    (dlPc # "idle" /\ Exists(dlPre.fs, SidecarPath(dlOpt, f))) =>
      /\ Untouched(f)
      /\ (DLSucceeded /\ FlagSet(dlOpt, f)) => dlRet.chap[f] = DownloadStatusExists

\* C25, amended: the bytes are kept in every case; the status is Exists
\* when the sidecar's block is entered, that is when the flag is set, the
\* metadata passes validation and series.json is not skipped as ongoing;
\* it is MissingMetadata when the metadata fails validation and Skip
\* otherwise.
C25_ExistingSidecarEntered ==
  \A f \in Sidecars :
    (dlPc # "idle" /\ Exists(dlPre.fs, SidecarPath(dlOpt, f))) =>
      /\ Untouched(f)
      /\ ~Exists(stage, SidecarPath(dlOpt, f))
      /\ DLSucceeded =>
           dlRet.chap[f] =
             IF Validate(mangaMeta) # Nil THEN DownloadStatusMissingMetadata
             ELSE IF f \in SidecarsOn(dlOpt, mangaMeta) THEN DownloadStatusExists
             ELSE DownloadStatusSkip

\* the second call rewrites the chapter and finds the cover of the first
C25_Witness ==
  /\ DLSucceeded
  /\ dlCalls = 2
  /\ Exists(dlPre.fs, SidecarPath(dlOpt, "CoverStatus"))
  /\ dlRet.chap.CoverStatus = DownloadStatusExists
  /\ dlRet.chap.ChapterStatus = DownloadStatusOverwritten
  /\ fs # dlPre.fs

\* C26: a call that the transform loop ended on the cancellation signal
\* has returned the cancellation error, has left at least the page of that
\* iteration untransformed, has staged no chapter and has left the
\* destination as it was.
C26_CancelBetweenPages ==
  (dlPc = "returned" /\ dlRet.raised = "cancel") =>
    /\ dlRet.err = "context canceled"
    /\ dlRet.transformed < dlRet.batch
    /\ ~Exists(stage, ChapterPath(dlOpt))
    /\ fs = dlPre.fs

\* the signal came after the first of two pages was transformed
C26_Witness ==
  /\ dlPc = "returned"
  /\ dlRet.raised = "cancel"
  /\ dlRet.batch = 2
  /\ dlRet.transformed = 1
  /\ fs = dlPre.fs
  /\ dlPre.fs # NewMemMapFs

\* C23: cache entries are only ever created, never updated in place: in every
\* step of Search, SearchByID, FindClosest and BindTitleWithID a key that is
\* already in the query->ids, title->id or id->Metadata bucket keeps the
\* value it holds.
C23_WriteOnce ==
  [][ /\ \A k \in DOMAIN q2i : k \in DOMAIN q2i' /\ q2i'[k] = q2i[k]
      /\ \A k \in DOMAIN t2i : k \in DOMAIN t2i' /\ t2i'[k] = t2i[k]
      /\ \A k \in DOMAIN i2m : k \in DOMAIN i2m' /\ i2m'[k] = i2m[k] ]_vars

\* the entries of the archive at the chapter's path in the destination
ArchiveAt(f, path) == IF Exists(f, path) THEN f[path].data ELSE <<>>

\* C27: a call with Format=CBZ and WriteComicInfoXML=true that downloaded a
\* chapter of N pages for a Manga with valid metadata and returned without
\* an error has left an archive of exactly N page entries, numbered in page
\* order and complete, followed by exactly one ComicInfo.xml entry, and
\* reports ComicInfoXMLStatus=New.
C27_ComicBookArchive ==
  (/\ DLSucceeded
   /\ dlRet.asked
   /\ dlOpt.Format = FormatCBZ
   /\ dlOpt.WriteComicInfoXML
   /\ Validate(mangaMeta) = Nil) =>
    LET a == ArchiveAt(fs, ChapterPath(dlOpt))
        n == dlRet.batch
    IN  /\ Len(a) = n + 1
        /\ \A k \in 1..n :
             /\ k <= Len(a)
             /\ a[k].name.num = Sprintf04d(k)
             /\ a[k].data # Nil
        /\ Len(a) > 0 /\ a[Len(a)].name = ComicInfoEntry(Nil).name
        /\ \A k \in 1..Len(a) : a[k].name = ComicInfoEntry(Nil).name => k = n + 1
        /\ dlRet.chap.ComicInfoXMLStatus = DownloadStatusNew

\* the IDs a record carries, the primary one and the extra ones
CarriedIDs(m) == {m.ID} \cup { m.ExtraIDs[k] : k \in 1..Len(m.ExtraIDs) }

\* the raw value reads as an integer of at least one
PositiveInteger(raw) == Atoi(raw).ok /\ Atoi(raw).val >= 1

\* title, authors, start date and status are there
FieldsFilled(m) ==
  /\ ~m.nil
  /\ m.Title # ""
  /\ m.Authors >= 1
  /\ m.StartDate # 0
  /\ m.Status # ""

\* C28 as stated: Validate accepts a record only if title, authors, start
\* date and status are non-empty and every ID it carries has a non-empty
\* code and, unless its source is the content provider, a raw value that is
\* a positive integer.
C28_ValidOnlyIf ==
  (pPc = "validated" /\ pOut = Nil) =>
    /\ FieldsFilled(pIn)
    /\ \A id \in CarriedIDs(pIn) :
         /\ id.IDCode # ""
         /\ id.IDSource # IDSourceProvider => PositiveInteger(id.IDRaw)

\* C28: Validate accepts a record only if its string form, title, authors,
\* start date and status are non-empty and every ID it carries has a
\* non-empty code, one of the six defined sources and a raw value that is a
\* positive integer when the source is a numbered one (Anilist,
\* MyAnimeList, Kitsu, MangaUpdates) and non-empty when it is AnimePlanet.
C28_ValidOnlyIfBySource ==
  (pPc = "validated" /\ pOut = Nil) =>
    /\ FieldsFilled(pIn)
    /\ pIn.String # ""
    /\ \A id \in CarriedIDs(pIn) :
         /\ id.IDCode # ""
         /\ id.IDSource \in IDSourceProvider..IDSourceAnimePlanet
         /\ id.IDSource \in IDSourceAnilist..IDSourceMangaUpdates =>
              PositiveInteger(id.IDRaw)
         /\ id.IDSource = IDSourceAnimePlanet => id.IDRaw # <<>>

\* an accepted record whose AnimePlanet id is a word, and one whose extra
\* Anilist id is a signed positive number
C28_Witness ==
  /\ pPc = "validated"
  /\ pOut = Nil
  /\ \/ /\ pIn.ID.IDSource = IDSourceAnimePlanet
        /\ pIn.ID.IDRaw = <<"x">>
     \/ /\ Len(pIn.ExtraIDs) = 2
        /\ pIn.ExtraIDs[2].IDSource = IDSourceAnilist
        /\ pIn.ExtraIDs[2].IDRaw = <<"+", "7">>

\* C30: a pass of the retry loop that found nothing and searched a title of
\* length L makes the next title from it without an index out of bounds: its
\* first L-step characters when L is greater than step, else its first L-1
\* characters when L is greater than 1, else the loop stops; the next title
\* is never empty.
C30_Shortening ==
  (pIn.i > 0 /\ pPc \in {"loop", "stopped", "panicked", "exhausted"}) =>
    LET L == Len(pOut.searched)
    IN  /\ ~pOut.panic
        /\ IF L > pIn.step
             THEN ~pOut.stop /\ pOut.next = SubSeq(pOut.searched, 1, L - pIn.step)
           ELSE IF L > 1
             THEN ~pOut.stop /\ pOut.next = SubSeq(pOut.searched, 1, L - 1)
           ELSE pOut.stop
        /\ ~pOut.stop => pOut.next # <<>>

\* C21: a cached-user load for a username that had a token but no user
\* record in the cache reports not-authenticated and hands no credentials
\* to the wrapped provider; when none of its cache operations fails it
\* returns no error and the token is gone from the cache, and when one
\* fails it returns the authentication error.
C21_HalfWrittenCleaned ==
  (/\ authRet.op \in {"AuthorizeCachedUser", "LoginWithCachedUser"}
   /\ authRet.hadToken
   /\ ~authRet.hadUser) =>
    /\ ~authRet.ok
    /\ ~authRet.creds
    /\ authRet.failed = 0 => (authRet.err = NoErr /\ authRet.name \notin tokenBucket)
    /\ authRet.failed # 0 => authRet.err = AuthError("cache")

\* a cached login that met a token left behind by a DeleteCachedUser whose
\* second delete failed, and removed it
C21_Witness ==
  /\ authRet.op = "LoginWithCachedUser"
  /\ authRet.hadToken
  /\ ~authRet.hadUser
  /\ authRet.failed = 0
  /\ authRet.err = NoErr
  /\ authRet.name \notin tokenBucket
  /\ provCreds = authRet.name

\* C22: every Get or Set of a store method acts on the handle that method
\* opened, a handle of its own bucket that is not closed.
C22_OwnBucket ==
  \A g \in Goroutines :
    sHit[g] # NoHit => (sHit[g].bucket = sWant[g] /\ ~sHit[g].closed)

\* C29: a ReadChapter with SaveAnilist set that opened the chapter, with an
\* Anilist provider that finds the manga and takes the progress, has set the
\* progress there to the chapter number cut to an integer.
C29_SaveAnilist ==
  (/\ rd.called
   /\ rd.opened
   /\ rd.opt.SaveAnilist
   /\ IDCodeAnilist \in rd.meta
   /\ rd.closest[IDCodeAnilist] = "found"
   /\ rd.set) =>
    /\ IDCodeAnilist \in DOMAIN rd.progress
    /\ rd.progress[IDCodeAnilist] = Trunc(rd.number)

\* C31: after a call that returned without an error, a sidecar whose status
\* is Failed has no file in the destination.
C31_FailedSidecarAbsent ==
  \A f \in Sidecars :
    (DLSucceeded /\ dlRet.chap[f] = DownloadStatusFailed) =>
      ~Exists(fs, SidecarPath(dlOpt, f))

\* the statuses DownloadStatus defines
DefinedStatuses ==
  {DownloadStatusNew, DownloadStatusSkip, DownloadStatusExists, DownloadStatusOverwritten,
   DownloadStatusFailed, DownloadStatusMissingMetadata}

\* C35: in a DownloadedChapter returned with a nil error each of the five
\* status fields holds one of the six defined statuses.
C35_DefinedStatuses ==
  DLSucceeded =>
    \A f \in {"ChapterStatus", "SeriesJSONStatus", "ComicInfoXMLStatus", "CoverStatus",
              "BannerStatus"} :
      dlRet.chap[f] \in DefinedStatuses

\* C36: in a call that returned without an error ComicInfoXMLStatus is
\* MissingMetadata only when the attached metadata fails validation; it is
\* Skip for a comic book archive written with valid metadata and
\* WriteComicInfoXML=false, for every other format and for a chapter whose
\* body was skipped.
C36_ComicInfoStatus ==
  DLSucceeded =>
    /\ dlRet.chap.ComicInfoXMLStatus = DownloadStatusMissingMetadata =>
         Validate(mangaMeta) # Nil
    /\ (/\ dlRet.asked
        /\ dlOpt.Format = FormatCBZ
        /\ Validate(mangaMeta) = Nil
        /\ ~dlOpt.WriteComicInfoXML) =>
         dlRet.chap.ComicInfoXMLStatus = DownloadStatusSkip
    /\ (dlOpt.Format # FormatCBZ \/ ~dlRet.asked) =>
         dlRet.chap.ComicInfoXMLStatus = DownloadStatusSkip

\* C37: when DownloadChapter has returned an error, the metadata attached
\* to the Manga is what it was when the call began.
C37_FailureKeepsMetadata ==
  (dlPc = "returned" /\ dlRet.err # Nil) => mangaMeta = dlPre.meta

\* C40: SearchByManga returns a result, found or not or an error, and does
\* not panic, also for a Manga whose attached metadata is nil.
C40_NilMetadata ==
  last.op = "SearchByManga" => last.err.type # Panic.type

\* C32: what one cache operation wrote is found by a later read of the same
\* bucket and key: after a SearchByID that found its id, the next SearchByID
\* of that id does not ask the provider, and after a Search that returned,
\* the next Search of that query does not ask the provider.
C32_WrittenIsFound ==
  /\ (/\ last.op = "SearchByID" /\ prev.op = "SearchByID" /\ last.id = prev.id
      /\ prev.err = NoErr /\ prev.found) =>
       last.idcalls = 0
  /\ (/\ last.op = "Search" /\ prev.op = "Search" /\ last.key = prev.key
      /\ prev.err = NoErr) =>
       (last.pcalls = 0 /\ last.idcalls = 0)

\* C33: in every state every id listed in a query-to-ids entry has an
\* id-to-manga entry, whichever cache operations failed on the way.
C33_ListedIDsStored ==
  \A q \in DOMAIN q2i : \A k \in 1..Len(q2i[q]) : Itoa(q2i[q][k]) \in DOMAIN i2m

\* a Search that stored two items and their ids, after a Search of the same
\* query that had failed on a cache write
C33_Witness ==
  /\ last.op = "Search" /\ last.err = NoErr /\ last.pcalls = 1
  /\ last.key \in DOMAIN q2i
  /\ Len(q2i[last.key]) = 2
  /\ prev.op = "Search" /\ prev.key = last.key
  /\ prev.err = WrapError("cache") /\ prev.pcalls = 1

\* the step is a Search that has returned
SearchStep ==
  /\ fcPc = "idle"
  /\ fcPc' = "idle"
  /\ opCount' = opCount + 1
  /\ last'.op = "Search"

C38_FailedLoadHoldsNoToken ==
  (/\ alRet.op = "AuthorizeCachedUser"
   /\ ~Authenticated(alRet.before)
   /\ (~alRet.ok \/ alRet.err # NoErr))
    => ~Authenticated(alAuthData)

\* C39: two concurrent DownloadChapter calls with SkipIfExists set, the
\* chapter not in the destination when they start: at most one of them
\* fetches the pages and reports New, the other reports Exists
C39_OneFetches ==
  (\A g \in Calls : ccPc[g] = "returned" /\ ccSkip[g])
    => /\ Cardinality({g \in Calls : ccFetched[g]}) <= 1
       /\ Cardinality({g \in Calls : ccStatus[g] = DownloadStatusNew}) <= 1
       /\ \E g \in Calls : ccStatus[g] = DownloadStatusExists

====
